---- MODULE Spec2Model ----
(***************************************************************************)
(* A model of the rollback core of esport_heaven_online: the State of      *)
(* game.rs, its advance / save / load operations, the player and boomerang *)
(* motion of player.rs and boomerang.rs, the fixed-point vector math of    *)
(* utils.rs and the tile probe of player.rs / level.rs.                    *)
(*                                                                         *)
(* TLC's integers are 32 bits wide, the program's I32F32 arithmetic needs  *)
(* 128-bit intermediates: the fixed-point operators below work on natural  *)
(* numbers held as little-endian sequences of 15-bit limbs.                *)
(***************************************************************************)
EXTENDS Integers, Sequences, FiniteSets, TLC

(* The last of the stages, each computed after the ones before it.  TLC    *)
(* evaluates a definition where it is first read, which for a chain of     *)
(* definitions is inside the evaluation of the next one; naming the stages *)
(* in a tuple has them evaluated one after another, as the statements of   *)
(* the program are.                                                        *)
InOrder(stages) == stages[Len(stages)]

(* The element of a one-element set.  The({e : x \in {v}}) is e with x     *)
(* standing for the value of v, which is computed once, before e is.       *)
The(S) == CHOOSE r \in S : TRUE

----------------------------------------------------------------------------
(* Multi-limb naturals: <<>> is 0, no leading (last) zero limb.  Carries   *)
(* and borrows are found by look-ahead rather than rippled limb by limb.   *)

LimbBase == 32768

Limb(a, i) == IF i >= 1 /\ i <= Len(a) THEN a[i] ELSE 0

\* the limbs f[1], ..., f[n] as a sequence
BLimbs(f, n) == SubSeq(f, 1, n)

\* a without its leading (last) zero limbs
BTrim(a) ==
    IF Len(a) = 0 \/ a[Len(a)] # 0 THEN a
    ELSE LET used == {i \in 1..Len(a) : a[i] # 0}
         IN  IF used = {} THEN <<>>
             ELSE BLimbs(a, CHOOSE i \in used : \A j \in used : j <= i)

\* the limbs of n, for 0 <= n < 2^31
BFromInt(n) ==
    BTrim(<<n % LimbBase, (n \div LimbBase) % LimbBase, n \div (LimbBase * LimbBase)>>)

\* the value of a, which must be below 2^31
BToInt(a) == Limb(a, 1) + LimbBase * Limb(a, 2) + LimbBase * LimbBase * Limb(a, 3)

\* a < 2^31 (so that BToInt is defined)
BFitsInt(a) == Len(a) <= 2 \/ (Len(a) = 3 /\ a[3] <= 1)

\* a carry enters limb i of a sum whose limb-wise sums are s: a lower limb
\* overflows and every limb between passes the carry on
BCarry(s, i) ==
    \E j \in 1..(i - 1) :
        /\ s[j] >= LimbBase
        /\ \A k \in (j + 1)..(i - 1) : s[k] = LimbBase - 1

\* the number whose limb-wise sums are s
BCarried(s) ==
    BTrim(BLimbs([i \in 1..Len(s) |->
                     (s[i] + (IF BCarry(s, i) THEN 1 ELSE 0)) % LimbBase], Len(s)))

\* one limb more than the longer of a and b has
BSumLen(a, b) == (IF Len(a) > Len(b) THEN Len(a) ELSE Len(b)) + 1

BAdd(a, b) ==
    IF Len(a) = 0 THEN b
    ELSE IF Len(b) = 0 THEN a
    ELSE BCarried(BLimbs([i \in 1..BSumLen(a, b) |-> Limb(a, i) + Limb(b, i)], BSumLen(a, b)))

\* a borrow is taken from limb i of a difference whose limb-wise differences
\* are s
BBorrow(s, i) ==
    \E j \in 1..(i - 1) :
        /\ s[j] < 0
        /\ \A k \in (j + 1)..(i - 1) : s[k] = 0

\* the number whose limb-wise differences are s
BBorrowed(s) ==
    BTrim(BLimbs([i \in 1..Len(s) |->
                     (s[i] - (IF BBorrow(s, i) THEN 1 ELSE 0) + LimbBase) % LimbBase],
                 Len(s)))

\* a - b for a >= b
BSub(a, b) ==
    IF Len(b) = 0 THEN a
    ELSE BBorrowed(BLimbs([i \in 1..Len(a) |-> a[i] - Limb(b, i)], Len(a)))

\* the largest of a non-empty set of integers
SetMax(S) == CHOOSE i \in S : \A j \in S : j <= i

\* the comparison of a and b, of equal length, which differ at the limbs in
\* differ
BCmpAt(a, b, differ) ==
    IF differ = {} THEN 0
    ELSE IF a[SetMax(differ)] < b[SetMax(differ)] THEN -1 ELSE 1

\* -1, 0, 1 as a < b, a = b, a > b
BCmp(a, b) ==
    IF Len(a) < Len(b) THEN -1
    ELSE IF Len(a) > Len(b) THEN 1
    ELSE BCmpAt(a, b, {i \in 1..Len(a) : a[i] # b[i]})

\* a * m for 0 <= m < 2^15: the low halves of the limb products plus their
\* high halves one limb up
BMulSmall(a, m) ==
    IF Len(a) = 0 \/ m = 0 THEN <<>>
    ELSE BAdd(BLimbs([i \in 1..Len(a) |-> (a[i] * m) % LimbBase], Len(a)),
         <<0>> \o [i \in 1..Len(a) |-> (a[i] * m) \div LimbBase])

\* a * LimbBase^k
BShiftLimbs(a, k) ==
    IF Len(a) = 0 THEN a ELSE [i \in 1..k |-> 0] \o a

\* the sum over i in 1..n of the halves of the limb products a[i] * b[j]
\* that fall into column k: low halves with i + j - 1 = k, high halves with
\* i + j = k
RECURSIVE BColumn(_, _, _, _)
BColumn(a, b, k, n) ==
    IF n = 0 THEN 0
    ELSE ((a[n] * Limb(b, k - n + 1)) % LimbBase)
         + ((a[n] * Limb(b, k - n)) \div LimbBase)
         + BColumn(a, b, k, n - 1)

\* the number whose column sums are columns
BColumnsSum(columns) ==
    BAdd(BLimbs([k \in 1..Len(columns) |-> columns[k] % LimbBase], Len(columns)),
         <<0>> \o [k \in 1..Len(columns) |-> columns[k] \div LimbBase])

BMul(a, b) ==
    IF Len(a) = 0 \/ Len(b) = 0 THEN <<>>
    ELSE BColumnsSum(BLimbs([k \in 1..(Len(a) + Len(b)) |-> BColumn(a, b, k, Len(a))],
                       Len(a) + Len(b)))

\* floor(a / 2^k) for 0 <= k < 15
BShrBits(a, k) ==
    IF Len(a) = 0 THEN a
    ELSE BTrim(BLimbs([i \in 1..Len(a) |->
                     (a[i] \div (2 ^ k)) + (Limb(a, i + 1) % (2 ^ k)) * (LimbBase \div (2 ^ k))],
                 Len(a)))

\* floor(a / 2^32) = floor(floor(a / 2^30) / 4)
BShr32(a) ==
    IF Len(a) <= 2 THEN <<>> ELSE BShrBits(SubSeq(a, 3, Len(a)), 2)

\* a has a 1 among its low 32 bits
BLow32NonZero(a) ==
    \/ Limb(a, 1) # 0
    \/ Limb(a, 2) # 0
    \/ Limb(a, 3) % 4 # 0

\* a * 2^32
BShl32(a) == BShiftLimbs(BMulSmall(a, 4), 2)

(* Long division, Knuth's algorithm D: the divisor is scaled so that its  *)
(* top limb is at least LimbBase / 2, then every quotient limb is guessed  *)
(* from the top limbs of the remainder and lowered until it fits.         *)
RECURSIVE BLower(_, _, _)
BLower(r, d, q) ==
    IF BCmp(BMulSmall(d, q), r) = 1 THEN BLower(r, d, q - 1) ELSE q

\* the guess g, which is at most one limb
BOneLimb(g) == IF g > LimbBase - 1 THEN LimbBase - 1 ELSE g

BGuess(r, d) ==
    IF Len(r) < Len(d) THEN 0
    ELSE BLower(r, d, BOneLimb((Limb(r, Len(d) + 1) * LimbBase + Limb(r, Len(d)))
                                   \div d[Len(d)]))

\* the quotient limb q of the remainder r by d, and what is left of r
BQuotRem(r, d) ==
    The({ <<q, BSub(r, BMulSmall(d, q))>> : q \in {BGuess(r, d)} })

\* the quotient limbs (little-endian) once a's limbs i..1 are brought down
\* onto the remainder r, given the quotient limbs qs found so far
RECURSIVE BDivStep(_, _, _, _, _)
BDivStep(a, d, i, r, qs) ==
    IF i = 0 THEN qs
    ELSE The({ BDivStep(a, d, i - 1, qr[2], <<qr[1]>> \o qs)
               : qr \in {BQuotRem(BTrim(<<a[i]>> \o r), d)} })

\* the division of the scaled a by the scaled d
BDivScaled(as, ds) ==
    IF Len(as) - Len(ds) + 1 < 1 THEN <<>>
    ELSE BTrim(BDivStep(as, ds, Len(as) - Len(ds) + 1,
                        SubSeq(as, Len(as) - Len(ds) + 2, Len(as)), <<>>))

\* floor(a / d) for d # 0: the top limbs of a, one fewer than d has, are
\* below d and start as the remainder
BDiv(a, d) ==
    IF Len(a) < Len(d) THEN <<>>
    ELSE BDivScaled(BMulSmall(a, LimbBase \div (d[Len(d)] + 1)),
               BMulSmall(d, LimbBase \div (d[Len(d)] + 1)))

RECURSIVE ISqrtIter(_, _)
ISqrtIter(n, x) ==
    IF (x + n \div x) \div 2 >= x THEN x ELSE ISqrtIter(n, (x + n \div x) \div 2)

\* floor(sqrt(n)) for 0 <= n < 2^30: Newton's iteration from the least power
\* of two above the root
ISqrt(n) ==
    IF n = 0 THEN 0
    ELSE ISqrtIter(n, 2 ^ (CHOOSE k \in 1..15 :
                               /\ 4 ^ (k - 1) <= n
                               /\ (k = 15 \/ n < 4 ^ k)))

\* Newton's iteration on x, whose next value is y
RECURSIVE BSqrtIter(_, _)
BSqrtNext(a, x, y) == IF BCmp(y, x) >= 0 THEN x ELSE BSqrtIter(a, y)

BSqrtIter(a, x) ==
    The({ BSqrtNext(a, x, BShrBits(BAdd(x, q), 1)) : q \in {BDiv(a, x)} })

\* a start above the root of a, which is not 0
BSqrtStart(a) ==
    BShiftLimbs(BFromInt(ISqrt(IF Len(a) % 2 = 0
                               THEN a[Len(a)] * LimbBase + a[Len(a) - 1]
                               ELSE a[Len(a)]) + 1),
                IF Len(a) % 2 = 0 THEN (Len(a) - 2) \div 2 ELSE (Len(a) - 1) \div 2)

\* floor(sqrt(a)): Newton's iteration from a start above the root
BSqrt(a) == IF Len(a) = 0 THEN <<>> ELSE BSqrtIter(a, BSqrtStart(a))

----------------------------------------------------------------------------
(* I32F32 of the fixed crate: a 64-bit signed number of 2^-32 units, held   *)
(* as a sign and the magnitude of its bits.  Multiplication shifts the      *)
(* 128-bit product right (rounding towards minus infinity), division        *)
(* truncates towards zero, to_num drops the fraction (towards minus         *)
(* infinity); the saturating forms clamp to the i64 / i32 range.            *)

I32Max == 2147483647

\* 2^63 as limbs
FxMinMag == <<0, 0, 0, 0, 8>>

\* 2^63 - 1 as limbs
FxMaxMag == <<32767, 32767, 32767, 32767, 7>>

Abs(i) == IF i < 0 THEN -i ELSE i

\* the largest magnitude of the sign
FxLimit(neg) == IF neg THEN FxMinMag ELSE FxMaxMag

FxMake(neg, mag) ==
    IF Len(mag) = 0 THEN [n |-> FALSE, m |-> mag]
    ELSE [n |-> neg, m |-> IF BCmp(mag, FxLimit(neg)) = 1 THEN FxLimit(neg) ELSE mag]

\* I32F32::from_num of an i32
FxFromNum(i) == [n |-> i < 0, m |-> BShl32(BFromInt(Abs(i)))]

\* the constants fixed!(0.5), fixed!(0.75) and I32F32::ONE
FxHalf == [n |-> FALSE, m |-> <<0, 0, 2>>]
FxThreeQuarters == [n |-> FALSE, m |-> <<0, 0, 3>>]
FxOne == [n |-> FALSE, m |-> <<0, 0, 4>>]

\* the bits p without their low 32, rounded towards minus infinity
FxShifted(neg, p) ==
    FxMake(neg, IF neg /\ BLow32NonZero(p) THEN BAdd(BShr32(p), <<1>>) ELSE BShr32(p))

\* saturating_mul
FxMul(a, b) == FxShifted(a.n # b.n, BMul(a.m, b.m))

\* saturating_div, for b # 0
FxDiv(a, b) == FxMake(a.n # b.n, BDiv(BShl32(a.m), b.m))

\* the sum of a and b where a is at least as large in magnitude as b and
\* their signs differ
FxAddApart(a, b) == FxMake(a.n, BSub(a.m, b.m))

\* saturating_add
FxAdd(a, b) ==
    IF a.n = b.n THEN FxMake(a.n, BAdd(a.m, b.m))
    ELSE IF BCmp(a.m, b.m) >= 0 THEN FxAddApart(a, b) ELSE FxAddApart(b, a)

\* a > b
FxGt(a, b) ==
    IF a.n /\ ~b.n THEN FALSE
    ELSE IF ~a.n /\ b.n THEN TRUE
    ELSE BCmp(a.m, b.m) = (IF a.n THEN -1 ELSE 1)

\* the i32 of the sign and the whole part up
FxWhole(neg, up) ==
    IF ~BFitsInt(up) THEN IF neg THEN -I32Max - 1 ELSE I32Max
    ELSE IF neg THEN -BToInt(up) ELSE BToInt(up)

\* saturating_to_num::<i32>
FxToNum(a) ==
    FxWhole(a.n, IF a.n /\ BLow32NonZero(a.m) THEN BAdd(BShr32(a.m), <<1>>)
                 ELSE BShr32(a.m))

----------------------------------------------------------------------------
(* utils.rs *)

\* i32 division, which truncates towards zero
IDiv(a, b) ==
    IF (a >= 0) = (b >= 0) THEN Abs(a) \div Abs(b) ELSE -(Abs(a) \div Abs(b))

\* IntVector2D::length: the square root of the i64 sum of squares, taken in
\* I64F64 and converted to I32F32
Length(v) ==
    The({ [n |-> FALSE, m |-> BSqrt(sum)]
          : sum \in {BShl32(BShl32(BAdd(BMul(BFromInt(Abs(v.x)), BFromInt(Abs(v.x))),
                                        BMul(BFromInt(Abs(v.y)), BFromInt(Abs(v.y))))))} })

length_as_int(v) == FxToNum(Length(v))

\* IntVector2D::normalize
normalize(v, size) ==
    IF ~(v.x = 0 /\ v.y = 0)
    THEN The({ The({ [x |-> FxToNum(FxMul(FxFromNum(v.x), normal)),
                      y |-> FxToNum(FxMul(FxFromNum(v.y), normal))]
                     : normal \in {FxDiv(FxFromNum(size), len)} })
               : len \in {Length(v)} })
    ELSE v

\* do_hitboxes_overlap with strict comparisons: touching edges do not count
do_hitboxes_overlap_strict(a, b) ==
    ~(\/ a.x >= b.x + b.width
      \/ b.x >= a.x + a.width
      \/ a.y >= b.y + b.height
      \/ b.y >= a.y + a.height)

do_hitboxes_overlap(a, b) ==
    LET is_not_overlapping ==
            \/ a.x > b.x + b.width
            \/ b.x > a.x + a.width
            \/ a.y > b.y + b.height
            \/ b.y > a.y + a.height
    IN  ~is_not_overlapping

approach(value, target, amount) ==
    IF value < target - amount THEN value + amount
    ELSE IF value > target + amount THEN value - amount
    ELSE target

clamp(value, min, max) ==
    IF max > min
    THEN IF value < min THEN min ELSE IF value > max THEN max ELSE value
    ELSE IF value < max THEN max ELSE IF value > min THEN min ELSE value

Min(a, b) == IF a < b THEN a ELSE b
Max(a, b) == IF a > b THEN a ELSE b

lerp(a, b, t) == a + FxToNum(FxMul(FxFromNum(b - a), t))

\* bit k (a power of two) of the u8 mask
input_check(check, input) == (input \div check) % 2 # 0

input_pressed(check, input, prev_input) ==
    input_check(check, input) /\ ~input_check(check, prev_input)

input_released(check, input, prev_input) ==
    ~input_check(check, input) /\ input_check(check, prev_input)

INPUT_UP == 1
INPUT_DOWN == 2
INPUT_LEFT == 4
INPUT_RIGHT == 8
INPUT_JUMP == 16
INPUT_ATTACK == 32
INPUT_DODGE == 64

----------------------------------------------------------------------------
(* level.rs.  The level file itself is a resource, not code: the levels    *)
(* here are closed boxes (a solid border of tiles) with optional solid     *)
(* tiles inside; grid index x + y * width_in_tiles as in check_grid, from  *)
(* 1 as sequences are.                                                     *)

TILE_SIZE == 4000

BoxWidth == 8
BoxHeight == 7

BoxLevel(w, h, inner, starts) ==
    [width_in_tiles  |-> w,
     height_in_tiles |-> h,
     grid |-> [i \in 1..(w * h) |->
                 LET x == (i - 1) % w
                     y == (i - 1) \div w
                 IN  x = 0 \/ y = 0 \/ x = w - 1 \/ y = h - 1 \/ <<x, y>> \in inner],
     player_starts |-> starts]

\* the arena of the game specifications: players 4000 units apart, standing
\* on the floor
ArenaLevel ==
    BoxLevel(BoxWidth, BoxHeight, {},
             <<[x |-> 6000,  y |-> (BoxHeight - 1) * TILE_SIZE - 12000],
               [x |-> 16000, y |-> (BoxHeight - 1) * TILE_SIZE - 12000]>>)

\* the same box with a pillar tile and a floating tile inside
PillarLevel ==
    BoxLevel(BoxWidth, BoxHeight, {<<3, BoxHeight - 2>>, <<5, 2>>},
             <<[x |-> 5000,  y |-> (BoxHeight - 1) * TILE_SIZE - 12000],
               [x |-> 20000, y |-> (BoxHeight - 1) * TILE_SIZE - 12000]>>)

check_grid(lv, tile_x, tile_y) ==
    IF \/ tile_x < 0
       \/ tile_x >= lv.width_in_tiles
       \/ tile_y < 0
       \/ tile_y >= lv.height_in_tiles
    THEN FALSE
    ELSE lv.grid[(tile_x + tile_y * lv.width_in_tiles) + 1]

----------------------------------------------------------------------------
(* player.rs *)

OG_FPS == 60
RUN_ACCEL == 400000
RUN_ACCEL_TURN_MULTIPLIER == 2
RUN_DECEL == 800000
AIR_ACCEL == 360000
AIR_DECEL == 360000
MAX_RUN_SPEED == 100000
MAX_SUPERJUMP_SPEED_X == 250000
MAX_SUPERJUMP_SPEED_X_OFF_WALL_SLIDE == 150000
MAX_AIR_SPEED == 120000
GRAVITY == 500000
FASTFALL_GRAVITY == 1200000
GRAVITY_ON_WALL == 150000
JUMP_POWER == 160000
JUMP_CANCEL_POWER == 40000
WALL_JUMP_POWER_X == 130000
WALL_JUMP_POWER_Y == 120000
SUPER_WALL_JUMP_POWER_X == 74286
SUPER_WALL_JUMP_POWER_Y == 210000
WALL_STICKINESS == 60000
MAX_FALL_SPEED == 270000
MAX_FALL_SPEED_ON_WALL == 200000
MAX_FASTFALL_SPEED == 500000
DOUBLE_JUMP_POWER_Y == 130000
DODGE_DURATION == 9
SLIDE_DURATION == 19
SLIDE_DECEL == 100000
DODGE_COOLDOWN == 9
DODGE_SPEED == 260000

PLAYER_WIDTH == 6000
PLAYER_HEIGHT == 12000

\* Player::new, the fields player.rs declares
PlayerNew(x, y, is_facing_left) ==
    [hitbox |-> [x |-> x, y |-> y, width |-> PLAYER_WIDTH, height |-> PLAYER_HEIGHT],
     velocity |-> [x |-> 0, y |-> 0],
     current_animation |-> "idle",
     current_animation_frame |-> 0,
     is_facing_left |-> is_facing_left,
     was_on_ground |-> TRUE,
     was_on_wall |-> FALSE,
     can_double_jump |-> TRUE,
     can_dodge |-> TRUE,
     dodge_timer |-> 0,
     dodge_timer_duration |-> DODGE_COOLDOWN,
     dodge_cooldown |-> 0,
     is_sliding |-> FALSE,
     is_wall_sliding |-> FALSE,
     is_super_jumping |-> FALSE,
     is_super_jumping_off_wall_slide |-> FALSE,
     collided_with_boomerang |-> FALSE,
     collided_with_player |-> FALSE]

(* game.rs is written against a Player that also has is_dead, will_die,   *)
(* start, sound_commands and particle_spawns (and an add_sound_command):  *)
(* a new player is alive, remembers the position it was created at and    *)
(* has nothing queued.                                                    *)
PlayerNewExt(x, y, is_facing_left) ==
    [is_dead |-> FALSE,
     will_die |-> FALSE,
     start |-> [x |-> x, y |-> y],
     sound_commands |-> <<>>,
     particle_spawns |-> <<>>] @@ PlayerNew(x, y, is_facing_left)

add_sound_command(e, name, command, volume) ==
    [e EXCEPT !.sound_commands = Append(@, <<name, command, volume>>)]

center_x(e) == e.hitbox.x + e.hitbox.width \div 2
center_y(e) == e.hitbox.y + e.hitbox.height \div 2

PlayerSetAnimation(p, new_animation) ==
    IF p.current_animation # new_animation
    THEN [p EXCEPT !.current_animation = new_animation,
                   !.current_animation_frame = 0]
    ELSE p

\* the tiles Player::collide looks at, as offsets from (tile_x, tile_y)
CollideScan(width, height) ==
    LET tile_width  == (width + TILE_SIZE - 1) \div TILE_SIZE
        tile_height == (height + TILE_SIZE - 1) \div TILE_SIZE
    IN  (0..tile_width) \X (0..tile_height)

\* Player::collide for a hitbox of the given size placed at (virtual_x, virtual_y)
CollideBox(lv, width, height, virtual_x, virtual_y) ==
    LET player_hitbox == [x |-> virtual_x, y |-> virtual_y,
                          width |-> width, height |-> height]
        tile_x == IDiv(virtual_x, TILE_SIZE)
        tile_y == IDiv(virtual_y, TILE_SIZE)
    IN  \E c \in CollideScan(width, height) :
            /\ check_grid(lv, tile_x + c[1], tile_y + c[2])
            /\ do_hitboxes_overlap(player_hitbox,
                   [x |-> (tile_x + c[1]) * TILE_SIZE,
                    y |-> (tile_y + c[2]) * TILE_SIZE,
                    width |-> TILE_SIZE, height |-> TILE_SIZE])

collide(p, lv, virtual_x, virtual_y) ==
    CollideBox(lv, p.hitbox.width, p.hitbox.height, virtual_x, virtual_y)

check_entity_collisions(p, other_player_hitbox, other_boomerang_hitbox) ==
    [p EXCEPT
       !.collided_with_player =
           IF do_hitboxes_overlap(p.hitbox, other_player_hitbox) THEN TRUE ELSE @,
       !.collided_with_boomerang =
           IF do_hitboxes_overlap(p.hitbox, other_boomerang_hitbox) THEN TRUE ELSE @]

\* a response to a blocked X sweep that looks at the walls before the ground
move_collide_x_walls_first(p, is_on_ground, is_on_left_wall, is_on_right_wall) ==
    IF is_on_left_wall
    THEN [p EXCEPT !.velocity.x = Max(@, -WALL_STICKINESS),
                   !.is_wall_sliding = IF p.dodge_timer > 0 THEN TRUE ELSE @]
    ELSE IF is_on_right_wall
    THEN [p EXCEPT !.velocity.x = Min(@, WALL_STICKINESS),
                   !.is_wall_sliding = IF p.dodge_timer > 0 THEN TRUE ELSE @]
    ELSE IF is_on_ground THEN [p EXCEPT !.velocity.x = 0]
    ELSE p

move_collide_x(p, is_on_ground, is_on_left_wall, is_on_right_wall) ==
    IF is_on_ground THEN [p EXCEPT !.velocity.x = 0]
    ELSE IF is_on_left_wall
    THEN [p EXCEPT !.velocity.x = Max(@, -WALL_STICKINESS),
                   !.is_wall_sliding = IF p.dodge_timer > 0 THEN TRUE ELSE @]
    ELSE IF is_on_right_wall
    THEN [p EXCEPT !.velocity.x = Min(@, WALL_STICKINESS),
                   !.is_wall_sliding = IF p.dodge_timer > 0 THEN TRUE ELSE @]
    ELSE p

move_collide_y(p) == [p EXCEPT !.velocity.y = 0]

\* the increments without the unit step
increments_coarse == <<1000, 100, 10>>

increments == <<1000, 100, 10, 1>>

(* The two nested while loops of move_by on one axis.  r.p is the player, *)
(* r.collided the collided_on_x / collided_on_y flag and r.move_amount    *)
(* what is left to move.                                                  *)

\* the inner while loop at one increment, along x
RECURSIVE StepsX(_, _, _, _, _, _)
StepsX(r, lv, sign, increment, oph, obh) ==
    IF r.move_amount >= increment
    THEN IF collide(r.p, lv, r.p.hitbox.x + increment * sign, r.p.hitbox.y)
         THEN [r EXCEPT !.collided = TRUE]
         ELSE StepsX([p |-> check_entity_collisions(
                               [r.p EXCEPT !.hitbox.x = @ + increment * sign], oph, obh),
                      collided |-> r.collided,
                      move_amount |-> r.move_amount - increment],
                     lv, sign, increment, oph, obh)
    ELSE r

\* the outer while loop over the increments, along x
RECURSIVE SweepX(_, _, _, _, _, _)
SweepX(r, lv, sign, increment_index, oph, obh) ==
    IF increment_index > Len(increments) THEN r
    ELSE The({ SweepX(stepped, lv, sign, increment_index + 1, oph, obh)
               : stepped \in {StepsX(r, lv, sign, increments[increment_index], oph, obh)} })

\* the inner while loop at one increment, along y
RECURSIVE StepsY(_, _, _, _, _, _)
StepsY(r, lv, sign, increment, oph, obh) ==
    IF r.move_amount >= increment
    THEN IF collide(r.p, lv, r.p.hitbox.x, r.p.hitbox.y + increment * sign)
         THEN [r EXCEPT !.collided = TRUE]
         ELSE StepsY([p |-> check_entity_collisions(
                               [r.p EXCEPT !.hitbox.y = @ + increment * sign], oph, obh),
                      collided |-> r.collided,
                      move_amount |-> r.move_amount - increment],
                     lv, sign, increment, oph, obh)
    ELSE r

\* the outer while loop over the increments, along y
RECURSIVE SweepY(_, _, _, _, _, _)
SweepY(r, lv, sign, increment_index, oph, obh) ==
    IF increment_index > Len(increments) THEN r
    ELSE The({ SweepY(stepped, lv, sign, increment_index + 1, oph, obh)
               : stepped \in {StepsY(r, lv, sign, increments[increment_index], oph, obh)} })

\* Player::move_by
move_by(p, lv, move_x, move_y, sweep, is_on_ground, is_on_left_wall, is_on_right_wall, oph, obh) ==
    The({ The({ The({
        check_entity_collisions(IF sy.collided THEN move_collide_y(sy.p) ELSE sy.p,
                                oph, obh)
        : sy \in {IF sweep \/ collide(px, lv, px.hitbox.x, px.hitbox.y + move_y)
                  THEN SweepY([p |-> px, collided |-> FALSE, move_amount |-> Abs(move_y)],
                              lv, IF move_y > 0 THEN 1 ELSE -1, 1, oph, obh)
                  ELSE [p |-> [px EXCEPT !.hitbox.y = @ + move_y],
                        collided |-> FALSE]} })
        : px \in {IF sx.collided
                  THEN move_collide_x(sx.p, is_on_ground, is_on_left_wall,
                                      is_on_right_wall)
                  ELSE sx.p} })
        : sx \in {IF sweep \/ collide(p, lv, p.hitbox.x + move_x, p.hitbox.y)
                  THEN SweepX([p |-> p, collided |-> FALSE, move_amount |-> Abs(move_x)],
                              lv, IF move_x > 0 THEN 1 ELSE -1, 1, oph, obh)
                  ELSE [p |-> [p EXCEPT !.hitbox.x = @ + move_x],
                        collided |-> FALSE]} })

\* move_by by the velocity of one frame, as dodge_movement and movement call it
MoveByVelocity(p, lv, is_on_ground, is_on_left_wall, is_on_right_wall, oph, obh) ==
    move_by(p, lv, IDiv(p.velocity.x, OG_FPS), IDiv(p.velocity.y, OG_FPS), TRUE,
            is_on_ground, is_on_left_wall, is_on_right_wall, oph, obh)

\* a reset of the timer that keeps the duration of the dodge before
reset_dodge_timer_stale(p, new_duration) == [p EXCEPT !.dodge_timer = new_duration]

reset_dodge_timer(p, new_duration) ==
    [p EXCEPT !.dodge_timer = new_duration, !.dodge_timer_duration = new_duration]

\* the gravity step the slide and wall-slide branches of dodge_movement share
DodgeGravity(p, input) ==
    LET gravity == IF input_check(INPUT_DOWN, input) /\ p.velocity.y > -JUMP_CANCEL_POWER
                   THEN FASTFALL_GRAVITY ELSE GRAVITY
    IN  [p EXCEPT !.velocity.y = Min(@ + gravity \div OG_FPS, MAX_FASTFALL_SPEED)]

\* a jump out of a slide that is a super jump whenever it is made
SlideJump_always_super(p) ==
    The({ [p EXCEPT
             !.velocity.y = FxToNum(FxDiv(FxFromNum(-JUMP_POWER), jump_modifier)),
             !.velocity.x = FxToNum(FxMul(FxFromNum(p.velocity.x), jump_modifier)),
             !.dodge_timer = 0,
             !.is_sliding = FALSE,
             !.is_super_jumping = TRUE]
          : jump_modifier \in {FxAdd(FxThreeQuarters,
                                     FxMul(FxHalf, FxDiv(FxFromNum(p.dodge_timer),
                                                         FxFromNum(p.dodge_timer_duration))))} })

\* a jump out of a slide scaled by the share of the slide that is left alone
SlideJump_by_ratio(p) ==
    The({ [p EXCEPT
             !.velocity.y = FxToNum(FxDiv(FxFromNum(-JUMP_POWER), ratio)),
             !.velocity.x = FxToNum(FxMul(FxFromNum(p.velocity.x), ratio)),
             !.dodge_timer = 0,
             !.is_sliding = FALSE,
             !.is_super_jumping = IF FxGt(ratio, FxHalf) THEN TRUE ELSE @]
          : ratio \in {FxDiv(FxFromNum(p.dodge_timer),
                             FxFromNum(p.dodge_timer_duration))} })

\* the jump out of a ground slide (dodge_movement, is_sliding branch)
SlideJump(p) ==
    The({ The({ [p EXCEPT
                   !.velocity.y = FxToNum(FxDiv(FxFromNum(-JUMP_POWER), jump_modifier)),
                   !.velocity.x = FxToNum(FxMul(FxFromNum(p.velocity.x), jump_modifier)),
                   !.dodge_timer = 0,
                   !.is_sliding = FALSE,
                   !.is_super_jumping = IF FxGt(ratio, FxHalf) THEN TRUE ELSE @]
                : jump_modifier \in {FxAdd(FxThreeQuarters, FxMul(FxHalf, ratio))} })
          : ratio \in {FxDiv(FxFromNum(p.dodge_timer),
                             FxFromNum(p.dodge_timer_duration))} })

\* the jump out of a wall-slide dodge (dodge_movement, is_wall_sliding branch)
SuperWallJump(p, is_on_left_wall) ==
    [p EXCEPT !.velocity.y = IF @ < 0 THEN -SUPER_WALL_JUMP_POWER_Y ELSE @,
              !.velocity.x = IF is_on_left_wall THEN SUPER_WALL_JUMP_POWER_X
                             ELSE -SUPER_WALL_JUMP_POWER_X,
              !.dodge_timer = 0,
              !.is_wall_sliding = FALSE,
              !.is_super_jumping = TRUE,
              !.is_super_jumping_off_wall_slide = TRUE]

dodge_movement(p, input, prev_input, lv, is_on_ground, is_on_left_wall, is_on_right_wall, is_on_wall, oph, obh) ==
    MoveByVelocity(
        [(IF p.is_sliding
          THEN The({ IF input_pressed(INPUT_JUMP, input, prev_input)
                     THEN SlideJump(d) ELSE d
                     : d \in {[DodgeGravity(p, input) EXCEPT
                                 !.velocity.x = approach(@, 0, SLIDE_DECEL \div OG_FPS)]} })
          ELSE IF p.is_wall_sliding
          THEN IF input_pressed(INPUT_JUMP, input, prev_input)
               THEN SuperWallJump(DodgeGravity(p, input), is_on_left_wall)
               ELSE DodgeGravity(p, input)
          ELSE p)
         EXCEPT !.was_on_ground = is_on_ground, !.was_on_wall = is_on_wall],
        lv, is_on_ground, is_on_left_wall, is_on_right_wall, oph, obh)

\* the heading a dodge or a throw takes from the direction bits
Heading(is_facing_left, input) ==
    [x |-> IF input_check(INPUT_LEFT, input) THEN -1
           ELSE IF input_check(INPUT_RIGHT, input) THEN 1
           ELSE IF input_check(INPUT_UP, input) \/ input_check(INPUT_DOWN, input) THEN 0
           ELSE IF is_facing_left THEN -1 ELSE 1,
     y |-> IF input_check(INPUT_UP, input) THEN -1
           ELSE IF input_check(INPUT_DOWN, input) THEN 1
           ELSE 0]

\* movement, "Start dodging"
StartDodge(p, input, is_on_left_wall, is_on_right_wall) ==
    The({ The({
        [(IF input_check(INPUT_DOWN, input)
          THEN [reset_dodge_timer(p, SLIDE_DURATION) EXCEPT !.is_sliding = TRUE]
          ELSE IF into_wall
          THEN [reset_dodge_timer(p, DODGE_DURATION) EXCEPT !.is_wall_sliding = TRUE]
          ELSE [reset_dodge_timer(p, DODGE_DURATION) EXCEPT !.is_sliding = FALSE])
         EXCEPT !.velocity = normalize(IF ~input_check(INPUT_DOWN, input) /\ into_wall
                                       THEN [dodge_heading EXCEPT !.y = @ * 2]
                                       ELSE dodge_heading,
                                       DODGE_SPEED),
                !.can_dodge = FALSE]
        : into_wall \in {\/ is_on_left_wall /\ dodge_heading.x < 0
                         \/ is_on_right_wall /\ dodge_heading.x > 0} })
        : dodge_heading \in {Heading(p.is_facing_left, input)} })

\* movement: horizontal acceleration and the speed clamp
RunVelocity(p, input, is_on_ground, is_on_left_wall, is_on_right_wall, is_on_wall) ==
    LET turn  == is_on_ground
                 /\ (\/ input_check(INPUT_LEFT, input) /\ p.velocity.x > 0
                     \/ input_check(INPUT_RIGHT, input) /\ p.velocity.x < 0)
        accel == (IF is_on_ground THEN RUN_ACCEL ELSE AIR_ACCEL)
                 * (IF turn THEN RUN_ACCEL_TURN_MULTIPLIER ELSE 1)
        decel == IF is_on_ground THEN RUN_DECEL ELSE AIR_DECEL
        vx    == IF input_check(INPUT_LEFT, input) /\ ~is_on_left_wall
                 THEN p.velocity.x - accel \div OG_FPS
                 ELSE IF input_check(INPUT_RIGHT, input) /\ ~is_on_right_wall
                 THEN p.velocity.x + accel \div OG_FPS
                 ELSE IF ~is_on_wall
                 THEN approach(p.velocity.x, 0, decel \div OG_FPS)
                 ELSE p.velocity.x
        max_speed == IF p.is_super_jumping
                     THEN IF p.is_super_jumping_off_wall_slide
                          THEN MAX_SUPERJUMP_SPEED_X_OFF_WALL_SLIDE
                          ELSE MAX_SUPERJUMP_SPEED_X
                     ELSE IF is_on_ground THEN MAX_RUN_SPEED ELSE MAX_AIR_SPEED
    IN  [p EXCEPT !.velocity.x = clamp(vx, -max_speed, max_speed)]

\* the branches of movement with a double jump that keeps its charge
JumpAndGravity_unspent(p, input, prev_input, is_on_ground, is_on_left_wall, is_on_wall) ==
    IF is_on_ground
    THEN [p EXCEPT !.can_double_jump = TRUE,
                   !.can_dodge = TRUE,
                   !.velocity.y = IF input_pressed(INPUT_JUMP, input, prev_input)
                                  THEN -JUMP_POWER ELSE 0]
    ELSE IF is_on_wall
    THEN LET gravity == IF p.velocity.y > 0 THEN GRAVITY_ON_WALL ELSE GRAVITY
             vy == Min(p.velocity.y + gravity \div OG_FPS, MAX_FALL_SPEED_ON_WALL)
         IN  IF input_pressed(INPUT_JUMP, input, prev_input)
             THEN [p EXCEPT !.velocity.y = -WALL_JUMP_POWER_Y,
                            !.velocity.x = IF is_on_left_wall THEN WALL_JUMP_POWER_X
                                           ELSE -WALL_JUMP_POWER_X]
             ELSE [p EXCEPT !.velocity.y = vy]
    ELSE LET dj == input_pressed(INPUT_JUMP, input, prev_input) /\ p.can_double_jump
             p1 == IF dj
                   THEN [p EXCEPT
                           !.velocity.y = -DOUBLE_JUMP_POWER_Y,
                           !.velocity.x =
                               IF \/ p.velocity.x > 0 /\ input_check(INPUT_LEFT, input)
                                  \/ p.velocity.x < 0 /\ input_check(INPUT_RIGHT, input)
                               THEN 0 ELSE @]
                   ELSE p
             p2 == IF input_released(INPUT_JUMP, input, prev_input) /\ ~p1.is_super_jumping
                   THEN [p1 EXCEPT !.velocity.y = Max(@, -JUMP_CANCEL_POWER)]
                   ELSE p1
             fast == /\ input_check(INPUT_DOWN, input)
                     /\ p2.velocity.y > -JUMP_CANCEL_POWER
                     /\ ~p2.is_super_jumping
             gravity == IF fast THEN FASTFALL_GRAVITY ELSE GRAVITY
             max_fall_speed == IF fast THEN MAX_FASTFALL_SPEED ELSE MAX_FALL_SPEED
         IN  [p2 EXCEPT !.velocity.y = Min(@ + gravity \div OG_FPS, max_fall_speed)]

\* movement: the grounded / on a wall / airborne branches
JumpAndGravity(p, input, prev_input, is_on_ground, is_on_left_wall, is_on_wall) ==
    IF is_on_ground
    THEN [p EXCEPT !.can_double_jump = TRUE,
                   !.can_dodge = TRUE,
                   !.velocity.y = IF input_pressed(INPUT_JUMP, input, prev_input)
                                  THEN -JUMP_POWER ELSE 0]
    ELSE IF is_on_wall
    THEN LET gravity == IF p.velocity.y > 0 THEN GRAVITY_ON_WALL ELSE GRAVITY
             vy == Min(p.velocity.y + gravity \div OG_FPS, MAX_FALL_SPEED_ON_WALL)
         IN  IF input_pressed(INPUT_JUMP, input, prev_input)
             THEN [p EXCEPT !.velocity.y = -WALL_JUMP_POWER_Y,
                            !.velocity.x = IF is_on_left_wall THEN WALL_JUMP_POWER_X
                                           ELSE -WALL_JUMP_POWER_X]
             ELSE [p EXCEPT !.velocity.y = vy]
    ELSE LET dj == input_pressed(INPUT_JUMP, input, prev_input) /\ p.can_double_jump
             p1 == IF dj
                   THEN [p EXCEPT
                           !.velocity.y = -DOUBLE_JUMP_POWER_Y,
                           !.velocity.x =
                               IF \/ p.velocity.x > 0 /\ input_check(INPUT_LEFT, input)
                                  \/ p.velocity.x < 0 /\ input_check(INPUT_RIGHT, input)
                               THEN 0 ELSE @,
                           !.can_double_jump = FALSE]
                   ELSE p
             p2 == IF input_released(INPUT_JUMP, input, prev_input) /\ ~p1.is_super_jumping
                   THEN [p1 EXCEPT !.velocity.y = Max(@, -JUMP_CANCEL_POWER)]
                   ELSE p1
             fast == /\ input_check(INPUT_DOWN, input)
                     /\ p2.velocity.y > -JUMP_CANCEL_POWER
                     /\ ~p2.is_super_jumping
             gravity == IF fast THEN FASTFALL_GRAVITY ELSE GRAVITY
             max_fall_speed == IF fast THEN MAX_FASTFALL_SPEED ELSE MAX_FALL_SPEED
         IN  [p2 EXCEPT !.velocity.y = Min(@ + gravity \div OG_FPS, max_fall_speed)]

movement(p, input, prev_input, lv, is_on_ground, is_on_left_wall, is_on_right_wall, is_on_wall, oph, obh) ==
    IF /\ input_pressed(INPUT_DODGE, input, prev_input)
       /\ p.dodge_timer = 0
       /\ p.dodge_cooldown = 0
       /\ p.can_dodge
    THEN StartDodge(p, input, is_on_left_wall, is_on_right_wall)
    ELSE MoveByVelocity(
             [JumpAndGravity(
                  RunVelocity(IF is_on_ground \/ is_on_wall
                              THEN [p EXCEPT !.is_super_jumping = FALSE,
                                             !.is_super_jumping_off_wall_slide = FALSE]
                              ELSE p,
                              input, is_on_ground, is_on_left_wall, is_on_right_wall,
                              is_on_wall),
                  input, prev_input, is_on_ground, is_on_left_wall, is_on_wall)
              EXCEPT !.was_on_ground = is_on_ground, !.was_on_wall = is_on_wall],
             lv, is_on_ground, is_on_left_wall, is_on_right_wall, oph, obh)

\* Player::advance, the branch on dodge_timer
PlayerMove(p, input, prev_input, lv, is_on_ground, is_on_left_wall, is_on_right_wall, oph, obh) ==
    IF p.dodge_timer > 0
    THEN dodge_movement(p, input, prev_input, lv, is_on_ground, is_on_left_wall,
                        is_on_right_wall, is_on_left_wall \/ is_on_right_wall, oph, obh)
    ELSE movement(p, input, prev_input, lv, is_on_ground, is_on_left_wall,
                  is_on_right_wall, is_on_left_wall \/ is_on_right_wall, oph, obh)

\* Player::advance, the wall-slide exit after the move
WallSlideExit(p, is_on_wall) ==
    IF p.is_wall_sliding /\ ~is_on_wall
    THEN [p EXCEPT !.is_wall_sliding = FALSE,
                   !.velocity.y = IF p.was_on_wall /\ p.velocity.y <= 0
                                  THEN -JUMP_CANCEL_POWER * 2 ELSE @]
    ELSE p

\* Player::advance, "animation"
Animate(p, input, is_on_ground, is_on_left_wall, is_on_wall) ==
    LET p1 == [p EXCEPT !.current_animation_frame = @ + 1]
    IN  IF ~is_on_ground
        THEN IF is_on_wall
             THEN [PlayerSetAnimation(p1, "wall") EXCEPT !.is_facing_left = is_on_left_wall]
             ELSE [PlayerSetAnimation(p1, "jump") EXCEPT
                     !.is_facing_left = IF input_check(INPUT_LEFT, input) THEN TRUE
                                        ELSE IF input_check(INPUT_RIGHT, input) THEN FALSE
                                        ELSE @]
        ELSE IF p1.velocity.x # 0
        THEN [PlayerSetAnimation(p1,
                 IF \/ p1.velocity.x > 0 /\ input_check(INPUT_LEFT, input)
                    \/ p1.velocity.x < 0 /\ input_check(INPUT_RIGHT, input)
                 THEN "skid" ELSE "run")
              EXCEPT !.is_facing_left = p1.velocity.x < 0]
        ELSE PlayerSetAnimation(p1, "idle")

\* the timers ticked, with the slide flags left as they are when the dodge
\* runs out
TickTimers_flags_kept(p) ==
    LET prev_dodge_timer == p.dodge_timer
        p1 == [p EXCEPT !.dodge_timer = approach(@, 0, 1),
                        !.dodge_cooldown = approach(@, 0, 1)]
    IN  IF p1.dodge_timer = 0 /\ prev_dodge_timer > 0
        THEN [p1 EXCEPT !.dodge_cooldown = DODGE_COOLDOWN]
        ELSE p1

\* Player::advance, "tick timers"
TickTimers(p) ==
    LET prev_dodge_timer == p.dodge_timer
        p1 == [p EXCEPT !.dodge_timer = approach(@, 0, 1),
                        !.dodge_cooldown = approach(@, 0, 1)]
    IN  IF p1.dodge_timer = 0 /\ prev_dodge_timer > 0
        THEN [(IF p1.is_sliding THEN [p1 EXCEPT !.is_sliding = FALSE]
               ELSE IF p1.is_wall_sliding THEN [p1 EXCEPT !.is_wall_sliding = FALSE]
               ELSE IF p1.velocity.y < 0 THEN [p1 EXCEPT !.velocity.y = -JUMP_CANCEL_POWER]
               ELSE IF p1.velocity.y > 0 THEN [p1 EXCEPT !.velocity.y = MAX_FALL_SPEED \div 2]
               ELSE p1)
              EXCEPT !.dodge_cooldown = DODGE_COOLDOWN]
        ELSE p1

\* Player::advance
PlayerAdvance(p, input, prev_input, lv, oph, obh) ==
    The({ The({ The({
        TickTimers(Animate(WallSlideExit(p1, on_wall[1] \/ on_wall[2]), input,
                           is_on_ground, on_wall[1], on_wall[1] \/ on_wall[2]))
        : on_wall \in {<<collide(p1, lv, p1.hitbox.x - 1, p1.hitbox.y),
                         collide(p1, lv, p1.hitbox.x + 1, p1.hitbox.y)>>} })
        : p1 \in {PlayerMove([p EXCEPT !.collided_with_player = FALSE,
                                       !.collided_with_boomerang = FALSE],
                             input, prev_input, lv, is_on_ground, is_on_left_wall,
                             is_on_right_wall, oph, obh)} })
        : is_on_ground     \in {collide(p, lv, p.hitbox.x, p.hitbox.y + 1)},
          is_on_left_wall  \in {collide(p, lv, p.hitbox.x - 1, p.hitbox.y)},
          is_on_right_wall \in {collide(p, lv, p.hitbox.x + 1, p.hitbox.y)} })

----------------------------------------------------------------------------
(* boomerang.rs *)

MAX_SPEED == 300000
RETURN_RATE == FxThreeQuarters
BOOMERANG_SIZE == 8000
MIN_FLIGHT_TIME == 6

\* Boomerang::new; sound_commands is the queue game.rs and main.rs use
BoomerangNew ==
    [hitbox |-> [x |-> 0, y |-> 0, width |-> BOOMERANG_SIZE, height |-> BOOMERANG_SIZE],
     velocity |-> [x |-> 0, y |-> 0],
     initial_velocity |-> [x |-> 0, y |-> 0],
     current_animation |-> "idle",
     current_animation_frame |-> 0,
     is_holstered |-> TRUE,
     flight_time |-> 0,
     collided_with_player |-> FALSE,
     sound_commands |-> <<>>]

\* Boomerang::check_entity_collisions
BoomerangCheck(b, other_player_hitbox) ==
    IF do_hitboxes_overlap(b.hitbox, other_player_hitbox)
    THEN [b EXCEPT !.collided_with_player = TRUE]
    ELSE b

\* the inner while loop of Boomerang::move_by at one increment, along x;
\* r.b is the boomerang and r.move_amount what is left to move
RECURSIVE BoomerangStepsX(_, _, _, _)
BoomerangStepsX(r, sign, increment, oph) ==
    LET stepped == [b |-> BoomerangCheck(
                              [r.b EXCEPT !.hitbox.x = @ + increment * sign], oph),
                    move_amount |-> r.move_amount - increment]
    IN  IF r.move_amount >= increment
        THEN InOrder(<<stepped, BoomerangStepsX(stepped, sign, increment, oph)>>)
        ELSE r

\* the outer while loop over the increments, along x
RECURSIVE BoomerangSweepX(_, _, _, _)
BoomerangSweepX(r, sign, increment_index, oph) ==
    IF increment_index > Len(increments) THEN r
    ELSE The({ BoomerangSweepX(stepped, sign, increment_index + 1, oph)
               : stepped \in {BoomerangStepsX(r, sign, increments[increment_index], oph)} })

RECURSIVE BoomerangStepsY(_, _, _, _)
BoomerangStepsY(r, sign, increment, oph) ==
    LET stepped == [b |-> BoomerangCheck(
                              [r.b EXCEPT !.hitbox.y = @ + increment * sign], oph),
                    move_amount |-> r.move_amount - increment]
    IN  IF r.move_amount >= increment
        THEN InOrder(<<stepped, BoomerangStepsY(stepped, sign, increment, oph)>>)
        ELSE r

RECURSIVE BoomerangSweepY(_, _, _, _)
BoomerangSweepY(r, sign, increment_index, oph) ==
    IF increment_index > Len(increments) THEN r
    ELSE The({ BoomerangSweepY(stepped, sign, increment_index + 1, oph)
               : stepped \in {BoomerangStepsY(r, sign, increments[increment_index], oph)} })

\* Boomerang::move_by
BoomerangMoveBy(b, move_x, move_y, oph) ==
    BoomerangSweepY(
        [b |-> BoomerangSweepX([b |-> b, move_amount |-> Abs(move_x)],
                               IF move_x > 0 THEN 1 ELSE -1, 1, oph).b,
         move_amount |-> Abs(move_y)],
        IF move_y > 0 THEN 1 ELSE -1, 1, oph).b

\* Boomerang::advance, the attack press edge
Throw(b, input, player) ==
    The({ [b EXCEPT !.velocity = v, !.initial_velocity = v, !.is_holstered = FALSE]
          : v \in {normalize(Heading(player.is_facing_left, input), MAX_SPEED)} })

\* the homing blend factor of a flight that has lasted flight_time frames
LerpFactor(flight_time) ==
    The({ IF FxGt(f, FxOne) THEN FxOne ELSE f
          : f \in {FxMul(FxDiv(FxFromNum(flight_time), FxFromNum(OG_FPS)),
                         RETURN_RATE)} })

\* Boomerang::advance, the in-flight branch once the velocity is set: the
\* boomerang is holstered when its owner is within reach steps of
\* MAX_SPEED / OG_FPS, and moves on otherwise
FlyOn(b, oph, reach, distance_from_player, towards) ==
    IF /\ b.flight_time > MIN_FLIGHT_TIME
       /\ reach * length_as_int(normalize(towards, MAX_SPEED \div OG_FPS))
              >= distance_from_player
    THEN [b EXCEPT !.is_holstered = TRUE, !.flight_time = 0]
    ELSE [BoomerangMoveBy(b, IDiv(b.velocity.x, OG_FPS), IDiv(b.velocity.y, OG_FPS), oph)
          EXCEPT !.flight_time = @ + 1]

\* Boomerang::advance, the in-flight branch with the reach as a parameter
FlyWithin(b, player, oph, reach) ==
    The({ The({ The({
        FlyOn([b EXCEPT !.velocity =
                  [x |-> lerp(b.initial_velocity.x, towards.x, lerp_factor),
                   y |-> lerp(b.initial_velocity.y, towards.y, lerp_factor)]],
              oph, reach, distance_from_player, towards)
        : lerp_factor \in {LerpFactor(b.flight_time)} })
        : distance_from_player \in {length_as_int(towards_player)},
          towards \in {normalize(towards_player, MAX_SPEED)} })
        : towards_player \in {[x |-> center_x(player) - center_x(b),
                               y |-> center_y(player) - center_y(b)]} })

\* an in-flight branch that re-holsters from twice the reach of one step
Fly_eager(b, player, oph) == FlyWithin(b, player, oph, 2)

\* Boomerang::advance, the in-flight branch
Fly(b, player, oph) == FlyWithin(b, player, oph, 1)

\* an advance that keeps the hit flag of the frame before
BoomerangAdvance_uncleared(b, input, prev_input, player, oph) ==
    The({ [(IF b1.is_holstered
            THEN [b1 EXCEPT
                    !.hitbox.x = center_x(player) - b1.hitbox.width \div 2,
                    !.hitbox.y = center_y(player) - b1.hitbox.height \div 2,
                    !.flight_time = 0]
            ELSE Fly(b1, player, oph))
           EXCEPT !.current_animation_frame = @ + 1]
          : b1 \in {IF input_pressed(INPUT_ATTACK, input, prev_input)
                    THEN Throw(b, input, player)
                    ELSE b} })

\* Boomerang::advance
BoomerangAdvance(b, input, prev_input, player, oph) ==
    The({ [(IF b1.is_holstered
            THEN [b1 EXCEPT
                    !.hitbox.x = center_x(player) - b1.hitbox.width \div 2,
                    !.hitbox.y = center_y(player) - b1.hitbox.height \div 2,
                    !.flight_time = 0]
            ELSE Fly(b1, player, oph))
           EXCEPT !.current_animation_frame = @ + 1]
          : b1 \in {IF input_pressed(INPUT_ATTACK, input, prev_input)
                    THEN Throw([b EXCEPT !.collided_with_player = FALSE], input, player)
                    ELSE [b EXCEPT !.collided_with_player = FALSE]} })

----------------------------------------------------------------------------
(* particle.rs *)

GROUND_DUST_ANIMATION_SPEED == 4
GROUND_DUST_ANIMATION_FRAMES == 5
SIMPLE_ANIMATION_SPEED == 10
SIMPLE_ANIMATION_FRAMES == 5

ParticleNew ==
    [position |-> [x |-> 0, y |-> 0],
     velocity |-> [x |-> 0, y |-> 0],
     current_animation |-> "none",
     current_animation_frame |-> 0]

ParticleSetAnimation(q, new_animation) ==
    IF q.current_animation # new_animation
    THEN [q EXCEPT !.current_animation = new_animation,
                   !.current_animation_frame = 0,
                   !.velocity = [x |-> 0, y |-> 0]]
    ELSE q

\* Particle::advance with > for >= : an animation lasts one frame longer
ParticleAdvance_late(q) ==
    LET q1 == [q EXCEPT !.current_animation_frame = @ + 1]
        q2 == IF q1.current_animation = "grounddust"
              THEN IF q1.current_animation_frame
                        > GROUND_DUST_ANIMATION_SPEED * GROUND_DUST_ANIMATION_FRAMES
                   THEN ParticleSetAnimation(q1, "none") ELSE q1
              ELSE IF q1.current_animation = "simple"
              THEN IF q1.current_animation_frame
                        > SIMPLE_ANIMATION_SPEED * SIMPLE_ANIMATION_FRAMES
                   THEN ParticleSetAnimation(q1, "none") ELSE q1
              ELSE q1
    IN  [q2 EXCEPT !.position = [x |-> q2.position.x + q2.velocity.x,
                                 y |-> q2.position.y + q2.velocity.y]]

ParticleAdvance(q) ==
    LET q1 == [q EXCEPT !.current_animation_frame = @ + 1]
        q2 == IF q1.current_animation = "grounddust"
              THEN IF q1.current_animation_frame
                        >= GROUND_DUST_ANIMATION_SPEED * GROUND_DUST_ANIMATION_FRAMES
                   THEN ParticleSetAnimation(q1, "none") ELSE q1
              ELSE IF q1.current_animation = "simple"
              THEN IF q1.current_animation_frame
                        >= SIMPLE_ANIMATION_SPEED * SIMPLE_ANIMATION_FRAMES
                   THEN ParticleSetAnimation(q1, "none") ELSE q1
              ELSE q1
    IN  [q2 EXCEPT !.position = [x |-> q2.position.x + q2.velocity.x,
                                 y |-> q2.position.y + q2.velocity.y]]

----------------------------------------------------------------------------
(* curtain.rs *)

MAX_OPACITY == 100

CurtainNew == [opacity |-> MAX_OPACITY]

CurtainAdvance(c) == [opacity |-> IF c.opacity - 1 < 0 THEN 0 ELSE c.opacity - 1]

----------------------------------------------------------------------------
(* game.rs: State *)

NUM_PARTICLES == 100
RESET_DELAY == 300
CHECKSUM_PERIOD == 100
NULL_FRAME == -1

StateNew(lv) ==
    LET player_one == PlayerNewExt(lv.player_starts[1].x, lv.player_starts[1].y - 1, FALSE)
        player_two == [PlayerNewExt(lv.player_starts[2].x, lv.player_starts[2].y - 1, TRUE)
                       EXCEPT !.is_facing_left = TRUE]
    IN  [frame |-> 0,
         prev_inputs |-> [n \in 0..1 |-> 0],
         players |-> [n \in 0..1 |-> IF n = 0 THEN player_one ELSE player_two],
         boomerangs |-> [n \in 0..1 |-> BoomerangNew],
         round_start_frame |-> 0,
         round_end_frame |-> -1,
         particles |-> [i \in 0..(NUM_PARTICLES - 1) |-> ParticleNew],
         curtain |-> CurtainNew]

\* a reset that keeps the end of the round that is over
StateReset_stale(s) ==
    [s EXCEPT
       !.prev_inputs = [n \in 0..1 |-> 0],
       !.players = [n \in 0..1 |->
                      PlayerNewExt(s.players[n].start.x, s.players[n].start.y, FALSE)],
       !.boomerangs = [n \in 0..1 |-> BoomerangNew],
       !.round_start_frame = s.frame]

\* State::reset
StateReset(s) ==
    [s EXCEPT
       !.prev_inputs = [n \in 0..1 |-> 0],
       !.players = [n \in 0..1 |->
                      PlayerNewExt(s.players[n].start.x, s.players[n].start.y, FALSE)],
       !.boomerangs = [n \in 0..1 |-> BoomerangNew],
       !.round_start_frame = s.frame,
       !.round_end_frame = -1]

\* get_free_particle_index that answers the length of the pool when no slot
\* is free
get_free_particle_index_past(particles) ==
    LET free == {i \in DOMAIN particles : particles[i].current_animation = "none"}
    IN  IF free = {} THEN NUM_PARTICLES ELSE CHOOSE i \in free : \A j \in free : i <= j

\* State::get_free_particle_index
get_free_particle_index(particles) ==
    LET free == {i \in DOMAIN particles : particles[i].current_animation = "none"}
    IN  IF free = {} THEN 0 ELSE CHOOSE i \in free : \A j \in free : i <= j

\* the players' loop without the test of is_dead
UpdatePlayer_undead(s, inputs, lv, player_num) ==
    [s EXCEPT !.players[player_num] =
        PlayerAdvance(@, inputs[player_num], s.prev_inputs[player_num], lv,
                      s.players[1 - player_num].hitbox,
                      s.boomerangs[1 - player_num].hitbox)]

\* State::advance, "update players": one turn of the loop
UpdatePlayer(s, inputs, lv, player_num) ==
    IF s.players[player_num].is_dead
    THEN [s EXCEPT !.players[player_num] =
             add_sound_command(add_sound_command(@, "run", "stop", 100),
                               "wallslide", "stop", 100)]
    ELSE [s EXCEPT !.players[player_num] =
             PlayerAdvance(@, inputs[player_num], s.prev_inputs[player_num], lv,
                           s.players[1 - player_num].hitbox,
                           s.boomerangs[1 - player_num].hitbox)]

\* State::advance, "update boomerangs": one turn of the loop
UpdateBoomerang(s, inputs, player_num) ==
    IF s.players[player_num].is_dead
    THEN [s EXCEPT !.boomerangs[player_num] = add_sound_command(@, "whoosh", "stop", 100)]
    ELSE [s EXCEPT !.boomerangs[player_num] =
             BoomerangAdvance(@, inputs[player_num], s.prev_inputs[player_num],
                              s.players[player_num], s.players[1 - player_num].hitbox)]

\* State::advance, "update particles": the spawns one player has queued are
\* popped from the back of its queue
RECURSIVE SpawnParticles(_, _)
SpawnParticles(s, player_num) ==
    LET spawns == s.players[player_num].particle_spawns
    IN  IF Len(spawns) = 0 THEN s
        ELSE LET particle_spawn == spawns[Len(spawns)]
                 particle_num == get_free_particle_index(s.particles)
             IN  SpawnParticles(
                     [s EXCEPT
                        !.players[player_num].particle_spawns =
                            SubSeq(spawns, 1, Len(spawns) - 1),
                        !.particles[particle_num] =
                            ParticleSetAnimation(
                                [@ EXCEPT !.position = particle_spawn[1]],
                                particle_spawn[2])],
                     player_num)

\* State::advance, "update particles": both players' spawns, then every
\* particle advances
UpdateParticles(s) ==
    [SpawnParticles(SpawnParticles(s, 0), 1)
     EXCEPT !.particles = [i \in DOMAIN @ |-> ParticleAdvance(@[i])]]

\* the marks of a player that dies of every body contact
MarkWillDie_any_contact(s, player_num) ==
    LET me    == s.players[player_num]
        by_player == me.collided_with_player /\ me.dodge_timer = 0
        by_boomerang == /\ me.collided_with_boomerang
                        /\ me.dodge_timer = 0
                        /\ ~s.boomerangs[1 - player_num].is_holstered
    IN  IF ~me.is_dead /\ (by_player \/ by_boomerang)
        THEN [s EXCEPT !.players[player_num].will_die = TRUE]
        ELSE s

\* State::advance, "combat interactions", first loop
MarkBoomerangHit(s, player_num) ==
    IF ~s.players[player_num].is_dead /\ s.boomerangs[player_num].collided_with_player
    THEN [s EXCEPT !.players[1 - player_num].collided_with_boomerang = TRUE]
    ELSE s

\* the combat interactions with the dodge of the victim ignored
MarkWillDie_undodgeable(s, player_num) ==
    LET me    == s.players[player_num]
        other == s.players[1 - player_num]
    IN  IF /\ ~me.is_dead
           /\ \/ me.collided_with_player /\ other.dodge_timer > 0
              \/ me.collided_with_boomerang /\ ~s.boomerangs[1 - player_num].is_holstered
        THEN [s EXCEPT !.players[player_num].will_die = TRUE]
        ELSE s

\* State::advance, "combat interactions", second loop
MarkWillDie(s, player_num) ==
    LET me    == s.players[player_num]
        other == s.players[1 - player_num]
        by_player == me.collided_with_player /\ me.dodge_timer = 0 /\ other.dodge_timer > 0
        by_boomerang == /\ me.collided_with_boomerang
                        /\ me.dodge_timer = 0
                        /\ ~s.boomerangs[1 - player_num].is_holstered
    IN  IF ~me.is_dead /\ (by_player \/ by_boomerang)
        THEN [s EXCEPT !.players[player_num].will_die = TRUE]
        ELSE s

explosion_values == <<-10, -5, 0, 5, 10>>

\* the 25 normalized directions of the explosion, in the order of the array
ExplosionAngles ==
    SubSeq([k \in 1..25 |->
               normalize([x |-> explosion_values[((k - 1) \div 5) + 1],
                          y |-> explosion_values[((k - 1) % 5) + 1]], 9000)], 1, 25)

\* State::advance, "Create explosion": the loop over the angles from the k-th
RECURSIVE Explode(_, _, _, _)
Explode(particles, angles, k, center) ==
    IF k > Len(angles) THEN particles
    ELSE IF angles[k].x = 0 /\ angles[k].y = 0
    THEN Explode(particles, angles, k + 1, center)
    ELSE LET particle_num == get_free_particle_index(particles)
             q == [ParticleSetAnimation(
                      [particles[particle_num] EXCEPT !.position = center], "simple")
                   EXCEPT !.velocity = angles[k]]
             spawned == [particles EXCEPT ![particle_num] = q]
         IN  InOrder(<<spawned, Explode(spawned, angles, k + 1, center)>>)

\* a kill that leaves the boomerang of the dead player as it is
KillPlayer_unholstered(s, player_num) ==
    IF ~s.players[player_num].is_dead /\ s.players[player_num].will_die
    THEN [s EXCEPT
            !.players[player_num] =
                add_sound_command([@ EXCEPT !.will_die = FALSE, !.is_dead = TRUE],
                                  "death", "play", 100),
            !.round_end_frame = s.frame,
            !.particles = Explode(@, ExplosionAngles, 1,
                                  [x |-> center_x(s.players[player_num]),
                                   y |-> center_y(s.players[player_num])])]
    ELSE s

\* State::advance, "kill players": one turn of the loop
KillPlayer(s, player_num) ==
    IF ~s.players[player_num].is_dead /\ s.players[player_num].will_die
    THEN [s EXCEPT
            !.players[player_num] =
                add_sound_command([@ EXCEPT !.will_die = FALSE, !.is_dead = TRUE],
                                  "death", "play", 100),
            !.boomerangs[player_num].is_holstered = TRUE,
            !.round_end_frame = s.frame,
            !.particles = Explode(@, ExplosionAngles, 1,
                                  [x |-> center_x(s.players[player_num]),
                                   y |-> center_y(s.players[player_num])])]
    ELSE s

\* a counter that goes up by two
WrappingSucc_skip(n) == IF n >= I32Max - 1 THEN -I32Max - 1 ELSE n + 2

\* i32 += 1 as the builds perform it: at i32::MAX a release build wraps to
\* i32::MIN (a debug build panics there and leaves no successor)
WrappingSucc(n) == IF n = I32Max THEN -I32Max - 1 ELSE n + 1

\* i32 - i32 as a release build performs it: the difference wrapped into
\* the i32 range (a debug build panics where it wraps)
WrappingSub(a, b) ==
    IF b > 0 /\ a < (-I32Max - 1) + b
    THEN ((a + I32Max) + 1) + ((I32Max - b) + 1)
    ELSE IF b < 0 /\ a > I32Max + b
         THEN ((a - I32Max) - 1) + (-(b + 1) - I32Max)
         ELSE a - b

\* State::advance up to the end of the first loop of the combat
\* interactions: the state the deaths of the frame are decided on
AtCombat(s, inputs, lv) ==
    The({ The({ The({ The({
        MarkBoomerangHit(MarkBoomerangHit(UpdateParticles(b1), 0), 1)
        : b1 \in {UpdateBoomerang(b0, inputs, 1)} })
        : b0 \in {UpdateBoomerang(p1, inputs, 0)} })
        : p1 \in {UpdatePlayer(p0, inputs, lv, 1)} })
        : p0 \in {UpdatePlayer([s EXCEPT !.frame = WrappingSucc(@),
                                         !.curtain = CurtainAdvance(@)],
                               inputs, lv, 0)} })

\* State::advance with the particles updated after the combat: the particles
\* of an explosion move in the frame of the death
StateAdvance_particles_last(s, inputs, lv) ==
    The({ The({ The({ The({
        [UpdateParticles(
            KillPlayer(KillPlayer(
                MarkWillDie(MarkWillDie(
                    MarkBoomerangHit(MarkBoomerangHit(b1, 0), 1),
                    0), 1),
                0), 1))
         EXCEPT !.prev_inputs = [n \in 0..1 |-> inputs[n]]]
        : b1 \in {UpdateBoomerang(b0, inputs, 1)} })
        : b0 \in {UpdateBoomerang(p1, inputs, 0)} })
        : p1 \in {UpdatePlayer(p0, inputs, lv, 1)} })
        : p0 \in {UpdatePlayer([s EXCEPT !.frame = WrappingSucc(@),
                                         !.curtain = CurtainAdvance(@)],
                               inputs, lv, 0)} })

\* State::advance
StateAdvance(s, inputs, lv) ==
    The({ The({ The({ The({
        [KillPlayer(KillPlayer(
            MarkWillDie(MarkWillDie(
                MarkBoomerangHit(MarkBoomerangHit(
                    UpdateParticles(b1),
                    0), 1),
                0), 1),
            0), 1)
         EXCEPT !.prev_inputs = [n \in 0..1 |-> inputs[n]]]
        : b1 \in {UpdateBoomerang(b0, inputs, 1)} })
        : b0 \in {UpdateBoomerang(p1, inputs, 0)} })
        : p1 \in {UpdatePlayer(p0, inputs, lv, 1)} })
        : p0 \in {UpdatePlayer([s EXCEPT !.frame = WrappingSucc(@),
                                         !.curtain = CurtainAdvance(@)],
                               inputs, lv, 0)} })

\* advance followed by a reset check that compares with >= : the round is
\* reset one frame early
AdvanceAndReset_early(s, inputs, lv) ==
    The({ IF a.round_end_frame # -1
             /\ WrappingSub(a.frame, a.round_end_frame) >= RESET_DELAY
          THEN StateReset(a) ELSE a
          : a \in {StateAdvance(s, inputs, lv)} })

\* Game::advance_frame, the state part: advance, then the round-reset check
AdvanceAndReset(s, inputs, lv) ==
    The({ IF a.round_end_frame # -1
             /\ WrappingSub(a.frame, a.round_end_frame) > RESET_DELAY
          THEN StateReset(a) ELSE a
          : a \in {StateAdvance(s, inputs, lv)} })

----------------------------------------------------------------------------
(* The checksum of game.rs: fletcher16 over bincode's encoding of the State *)
(* (fixed-width little-endian integers, usize and lengths as u64, a String   *)
(* as its length and its bytes, arrays without a length, a Vec with one).    *)
(* A piece of the buffer is held as <<length, sum1, sum2>>: its length and   *)
(* the two sums the loop of fletcher16 leaves after running over it from     *)
(* <<0, 0>>.  The sums of two pieces laid end to end follow from the sums of *)
(* each, so the State's buffer is summed piece by piece.  The fields absent  *)
(* from the Player and Boomerang of this revision are taken after the        *)
(* declared ones.                                                            *)

\* the empty buffer
NoBytes == <<0, 0, 0>>

\* one turn of the loop of fletcher16: the piece with one more byte
FletcherStep(piece, byte) ==
    LET sum1 == (piece[2] + byte) % 255
        sum2 == (piece[3] + sum1) % 255
    IN  <<piece[1] + 1, sum1, sum2>>

\* the loop of fletcher16 over the bytes data[i..]
RECURSIVE FletcherBytes(_, _, _)
FletcherBytes(piece, data, i) ==
    IF i > Len(data) THEN piece
    ELSE FletcherBytes(FletcherStep(piece, data[i]), data, i + 1)

\* the piece a followed by the piece b: running the loop on over b's bytes
\* adds a's sum1 to sum2 once per byte of b
Joined(a, b) ==
    <<a[1] + b[1],
      (a[2] + b[2]) % 255,
      (a[3] + (b[1] % 255) * a[2] + b[3]) % 255>>

\* the last line of fletcher16: (sum2 << 8) | sum1
FletcherWord(piece) == piece[3] * 256 + piece[2]

\* an i32: four little-endian bytes of its two's complement; after the loop
\* has run over them sum1 holds their sum and sum2 the sum of the four
\* values sum1 went through
PieceI32(v) ==
    LET b0 == v % 256
        b1 == (v \div 256) % 256
        b2 == (v \div 65536) % 256
        b3 == (v \div 16777216) % 256
    IN  <<4, (b0 + b1 + b2 + b3) % 255, (4 * b0 + 3 * b1 + 2 * b2 + b3) % 255>>

\* a usize or a length: a u64 whose upper half is zero for these values
PieceU64(v) == Joined(PieceI32(v), PieceI32(0))

PieceBool(b) == FletcherStep(NoBytes, IF b THEN 1 ELSE 0)

PieceU8(b) == FletcherStep(NoBytes, b)

\* the UTF-8 bytes of the strings the program stores
Utf8(str) ==
    CASE str = "idle" -> <<105, 100, 108, 101>>
      [] str = "run" -> <<114, 117, 110>>
      [] str = "skid" -> <<115, 107, 105, 100>>
      [] str = "jump" -> <<106, 117, 109, 112>>
      [] str = "wall" -> <<119, 97, 108, 108>>
      [] str = "none" -> <<110, 111, 110, 101>>
      [] str = "simple" -> <<115, 105, 109, 112, 108, 101>>
      [] str = "grounddust" -> <<103, 114, 111, 117, 110, 100, 100, 117, 115, 116>>
      [] str = "wallslide" -> <<119, 97, 108, 108, 115, 108, 105, 100, 101>>
      [] str = "whoosh" -> <<119, 104, 111, 111, 115, 104>>
      [] str = "death" -> <<100, 101, 97, 116, 104>>
      [] str = "stop" -> <<115, 116, 111, 112>>
      [] str = "play" -> <<112, 108, 97, 121>>

\* the strings the program stores
Strings ==
    {"idle", "run", "skid", "jump", "wall", "none", "simple", "grounddust",
     "wallslide", "whoosh", "death", "stop", "play"}

\* a String: its length as a u64, then its bytes
StringPieces ==
    [str \in Strings |->
        Joined(PieceU64(Len(Utf8(str))), FletcherBytes(NoBytes, Utf8(str), 1))] @@ <<>>

PieceString(str) == StringPieces[str]

PieceVector(v) == Joined(PieceI32(v.x), PieceI32(v.y))

PieceHitbox(h) ==
    Joined(Joined(PieceI32(h.x), PieceI32(h.y)), Joined(PieceI32(h.width), PieceI32(h.height)))

\* the pieces f[lo], ..., f[hi] laid end to end, by halves
RECURSIVE JoinedRange(_, _, _)
JoinedRange(f, lo, hi) ==
    IF lo > hi THEN NoBytes
    ELSE IF lo = hi THEN f[lo]
    ELSE Joined(JoinedRange(f, lo, (lo + hi) \div 2),
                JoinedRange(f, (lo + hi) \div 2 + 1, hi))

JoinedAll(f) == JoinedRange(f, 1, Len(f))

\* a Vec<(String, String, i32)>
PieceSoundCommands(q) ==
    Joined(PieceU64(Len(q)),
           JoinedAll([i \in 1..Len(q) |->
               JoinedAll(<<PieceString(q[i][1]), PieceString(q[i][2]), PieceI32(q[i][3])>>)]))

\* a Vec<(IntVector2D, String)>
PieceParticleSpawns(q) ==
    Joined(PieceU64(Len(q)),
           JoinedAll([i \in 1..Len(q) |->
               Joined(PieceVector(q[i][1]), PieceString(q[i][2]))]))

PiecePlayer(p) ==
    JoinedAll(<<PieceHitbox(p.hitbox), PieceVector(p.velocity),
                PieceString(p.current_animation), PieceU64(p.current_animation_frame),
                PieceBool(p.is_facing_left), PieceBool(p.was_on_ground),
                PieceBool(p.was_on_wall), PieceBool(p.can_double_jump),
                PieceBool(p.can_dodge),
                PieceI32(p.dodge_timer), PieceI32(p.dodge_timer_duration),
                PieceI32(p.dodge_cooldown),
                PieceBool(p.is_sliding), PieceBool(p.is_wall_sliding),
                PieceBool(p.is_super_jumping), PieceBool(p.is_super_jumping_off_wall_slide),
                PieceBool(p.collided_with_boomerang), PieceBool(p.collided_with_player),
                PieceBool(p.is_dead), PieceBool(p.will_die), PieceVector(p.start),
                PieceSoundCommands(p.sound_commands),
                PieceParticleSpawns(p.particle_spawns)>>)

PieceBoomerang(b) ==
    JoinedAll(<<PieceHitbox(b.hitbox), PieceVector(b.velocity),
                PieceVector(b.initial_velocity),
                PieceString(b.current_animation), PieceU64(b.current_animation_frame),
                PieceBool(b.is_holstered), PieceI32(b.flight_time),
                PieceBool(b.collided_with_player),
                PieceSoundCommands(b.sound_commands)>>)

PieceParticle(q) ==
    JoinedAll(<<PieceVector(q.position), PieceVector(q.velocity),
                PieceString(q.current_animation), PieceU64(q.current_animation_frame)>>)

\* bincode::serialize(&state), summed
PieceState(s) ==
    JoinedAll(<<PieceI32(s.frame),
                PieceU8(s.prev_inputs[0]), PieceU8(s.prev_inputs[1]),
                PiecePlayer(s.players[0]), PiecePlayer(s.players[1]),
                PieceBoomerang(s.boomerangs[0]), PieceBoomerang(s.boomerangs[1]),
                PieceI32(s.round_start_frame), PieceI32(s.round_end_frame),
                JoinedAll([i \in 1..NUM_PARTICLES |-> PieceParticle(s.particles[i - 1])]),
                PieceI32(s.curtain.opacity)>>)

\* fletcher16(&bincode::serialize(&state).unwrap())
Checksum(s) == FletcherWord(PieceState(s))

----------------------------------------------------------------------------
(* game.rs, Game: the state machine the session driver runs.  The driver's  *)
(* requests are the actions; a GameStateCell holds the frame, the State and  *)
(* the checksum of one snapshot, or nothing.                                 *)

VARIABLES
    level,              \* Game.level, never written after Game::new
    script,             \* the input pairs the session delivers for the first frames
    state,              \* Game.state
    cells,              \* the driver's GameStateCells
    snapshots,          \* per cell, the State as it was when the cell was last saved
    loaded_from,        \* the cell the last request loaded, "none" otherwise
    last_checksum,      \* Game.last_checksum
    periodic_checksum,  \* Game.periodic_checksum
    probe               \* arguments and result of a function applied on its own

vars == <<level, script, state, cells, snapshots, loaded_from,
          last_checksum, periodic_checksum, probe>>

\* the input of both players for one frame
Pair(one, two) == [n \in 0..1 |-> IF n = 0 THEN one ELSE two]

NoInput == Pair(0, 0)

\* the names of the cells the driver holds
Cells == {"c0", "c1"}

\* a cell nothing was saved into
EmptyCell == [frame |-> NULL_FRAME, data |-> <<>>, checksum |-> <<>>]

\* #[derive(Clone)] of State: every field is cloned
StateClone(s) ==
    [frame |-> s.frame,
     prev_inputs |-> [n \in 0..1 |-> s.prev_inputs[n]],
     players |-> [n \in 0..1 |-> s.players[n]],
     boomerangs |-> [n \in 0..1 |-> s.boomerangs[n]],
     round_start_frame |-> s.round_start_frame,
     round_end_frame |-> s.round_end_frame,
     particles |-> [i \in 0..(NUM_PARTICLES - 1) |-> s.particles[i]],
     curtain |-> [opacity |-> s.curtain.opacity]]

\* what Game::save_game_state puts into the cell
SavedCell(s, frame) ==
    [frame |-> frame, data |-> <<StateClone(s)>>, checksum |-> <<Checksum(s)>>]

\* a load that restores everything but prev_inputs
LoadedState_forgetful(cell) ==
    [StateClone(cell.data[1]) EXCEPT !.prev_inputs = [n \in 0..1 |-> 0]]

\* cell.load().expect(..) of Game::load_game_state: a clone of the cell's State
LoadedState(cell) == StateClone(cell.data[1])

\* the State and the checksum Game::advance_frame leaves
AdvanceResult(s, inputs, lv) ==
    The({ <<next, Checksum(next)>> : next \in {AdvanceAndReset(s, inputs, lv)} })

\* Game::new with the level lv
GameNew(lv) ==
    /\ level = lv
    /\ state = StateNew(lv)
    /\ last_checksum = <<NULL_FRAME, 0>>
    /\ periodic_checksum = <<NULL_FRAME, 0>>
    /\ cells = [c \in Cells |-> EmptyCell]
    /\ snapshots = [c \in Cells |-> <<>>]
    /\ loaded_from = "none"

\* an advance_frame under which a cell saved from the current State shares
\* it instead of owning a copy: the advance shows through the cell
AdvanceFrame_aliased(inputs) ==
    \E result \in {AdvanceResult(state, inputs, level)} :
        /\ state' = result[1]
        /\ last_checksum' = <<result[1].frame, result[2]>>
        /\ periodic_checksum' = IF result[1].frame % CHECKSUM_PERIOD = 0
                                THEN <<result[1].frame, result[2]>>
                                ELSE periodic_checksum
        /\ loaded_from' = "none"
        /\ cells' = [c \in Cells |->
                        IF cells[c].data = <<state>>
                        THEN [cells[c] EXCEPT !.data = <<result[1]>>]
                        ELSE cells[c]]
        /\ UNCHANGED <<level, script, snapshots, probe>>

\* Game::advance_frame
AdvanceFrame(inputs) ==
    \E result \in {AdvanceResult(state, inputs, level)} :
        /\ state' = result[1]
        /\ last_checksum' = <<result[1].frame, result[2]>>
        /\ periodic_checksum' = IF result[1].frame % CHECKSUM_PERIOD = 0
                                THEN <<result[1].frame, result[2]>>
                                ELSE periodic_checksum
        /\ loaded_from' = "none"
        /\ UNCHANGED <<level, script, cells, snapshots, probe>>

\* Game::save_game_state; the assert_eq! is the guard
SaveGameState(cell, frame) ==
    /\ state.frame = frame
    /\ cells' = [cells EXCEPT ![cell] = SavedCell(state, frame)]
    /\ snapshots' = [snapshots EXCEPT ![cell] = <<state>>]
    /\ loaded_from' = "none"
    /\ UNCHANGED <<level, script, state, last_checksum, periodic_checksum, probe>>

\* Game::load_game_state; the expect is the guard
LoadGameState(cell) ==
    /\ cells[cell].data # <<>>
    /\ state' = LoadedState(cells[cell])
    /\ loaded_from' = cell
    /\ UNCHANGED <<level, script, cells, snapshots, last_checksum,
                   periodic_checksum, probe>>

\* some sound command waits to be played
SoundsPending ==
    \E n \in 0..1 : \/ state.players[n].sound_commands # <<>>
                    \/ state.boomerangs[n].sound_commands # <<>>

\* main.rs, handle_sounds: every queue is popped until it is empty
HandleSounds ==
    /\ SoundsPending
    /\ state' = [state EXCEPT
                   !.players = [n \in 0..1 |-> [@[n] EXCEPT !.sound_commands = <<>>]],
                   !.boomerangs = [n \in 0..1 |-> [@[n] EXCEPT !.sound_commands = <<>>]]]
    /\ loaded_from' = "none"
    /\ UNCHANGED <<level, script, cells, snapshots, last_checksum,
                   periodic_checksum, probe>>

\* the input pairs the session may deliver for the next frame: the script's
\* while it lasts, then one of free
NextInputs(free) ==
    IF state.frame < Len(script) THEN {script[state.frame + 1]} ELSE free

----------------------------------------------------------------------------
(* Spec: a rollback session.  The driver advances, saves into any cell and  *)
(* loads any saved cell, in any order, for MaxFrame frames; the sounds are   *)
(* played at any time.                                                       *)

MaxFrame == 3

\* player one dodges into player two, who throws; both jump and throw
DriverScripts ==
    {[f \in 1..MaxFrame |-> IF f = 1 THEN Pair(INPUT_DODGE + INPUT_RIGHT, INPUT_ATTACK + INPUT_LEFT)
                            ELSE NoInput],
     [f \in 1..MaxFrame |-> IF f % 2 = 1 THEN Pair(INPUT_JUMP, INPUT_ATTACK + INPUT_UP)
                            ELSE Pair(INPUT_RIGHT, INPUT_LEFT + INPUT_DODGE)]}

Init ==
    /\ GameNew(ArenaLevel)
    /\ script \in DriverScripts
    /\ probe = <<>>

DriverAdvance ==
    /\ state.frame < MaxFrame
    /\ \E inputs \in NextInputs({NoInput}) : AdvanceFrame(inputs)

DriverSave == \E cell \in Cells : SaveGameState(cell, state.frame)

DriverLoad == \E cell \in Cells : LoadGameState(cell)

Next == DriverAdvance \/ DriverSave \/ DriverLoad \/ HandleSounds

Spec == Init /\ [][Next]_vars

----------------------------------------------------------------------------
(* SpecOverlap: do_hitboxes_overlap applied to every pair of small hitboxes. *)

MaxCoord == 2
MaxSize == 1

Hitboxes == [x : 0..MaxCoord, y : 0..MaxCoord, width : 0..MaxSize, height : 0..MaxSize]

InitOverlap ==
    /\ GameNew(ArenaLevel)
    /\ script = <<>>
    /\ probe \in [op : {"do_hitboxes_overlap"}, a : Hitboxes, b : Hitboxes,
                  done : {FALSE}, result : {FALSE}]

ApplyOverlap ==
    /\ probe.op = "do_hitboxes_overlap"
    /\ ~probe.done
    /\ probe' = [probe EXCEPT !.done = TRUE,
                              !.result = do_hitboxes_overlap(probe.a, probe.b)]
    /\ UNCHANGED <<level, script, state, cells, snapshots, loaded_from,
                   last_checksum, periodic_checksum>>

SpecOverlap == InitOverlap /\ [][ApplyOverlap]_vars

\* the closed rectangle of h contains the point (px, py)
InRectangle(h, px, py) ==
    /\ h.x <= px /\ px <= h.x + h.width
    /\ h.y <= py /\ py <= h.y + h.height

\* the closed rectangles of a and b have a point in common (with integer
\* corners, an integer point)
RectanglesIntersect(a, b) ==
    \E px \in 0..(MaxCoord + MaxSize), py \in 0..(MaxCoord + MaxSize) :
        InRectangle(a, px, py) /\ InRectangle(b, px, py)

\* a and b touch exactly at an edge on one axis and intersect on the other
TouchAtEdge(a, b) ==
    \/ /\ a.x + a.width = b.x
       /\ a.y <= b.y + b.height /\ b.y <= a.y + a.height
    \/ /\ a.y + a.height = b.y
       /\ a.x <= b.x + b.width /\ b.x <= a.x + a.width

----------------------------------------------------------------------------
(* SpecCollide: Player::collide applied to the player's hitbox placed at and *)
(* around the tile edges of a level, inside and outside of it.               *)

\* how far from a tile edge the probed positions lie
ProbeSpread == 1

\* the coordinates probed along an axis of tiles tiles
ProbeCoords(tiles) ==
    {t * TILE_SIZE + d : t \in -1..(tiles + 1), d \in -ProbeSpread..ProbeSpread}
    \cup {t * TILE_SIZE + TILE_SIZE \div 2 : t \in -1..tiles}

InitCollide ==
    /\ GameNew(PillarLevel)
    /\ script = <<>>
    /\ probe \in [op : {"collide"},
                  x : ProbeCoords(BoxWidth), y : ProbeCoords(BoxHeight),
                  done : {FALSE}, result : {FALSE}]

ApplyCollide ==
    /\ probe.op = "collide"
    /\ ~probe.done
    /\ probe' = [probe EXCEPT !.done = TRUE,
                              !.result = collide(state.players[0], level, probe.x, probe.y)]
    /\ UNCHANGED <<level, script, state, cells, snapshots, loaded_from,
                   last_checksum, periodic_checksum>>

SpecCollide == InitCollide /\ [][ApplyCollide]_vars

\* the AABB of the tile (tile_x, tile_y)
TileBox(tile_x, tile_y) ==
    [x |-> tile_x * TILE_SIZE, y |-> tile_y * TILE_SIZE,
     width |-> TILE_SIZE, height |-> TILE_SIZE]

\* some occupied in-bounds tile of lv overlaps h by the inclusive test
TouchesTile(lv, h) ==
    \E tile_x \in 0..(lv.width_in_tiles - 1), tile_y \in 0..(lv.height_in_tiles - 1) :
        /\ lv.grid[(tile_x + tile_y * lv.width_in_tiles) + 1]
        /\ do_hitboxes_overlap(h, TileBox(tile_x, tile_y))

----------------------------------------------------------------------------
(* SpecMove: Player::move_by, swept as both callers do, applied to a player *)
(* that overlaps no tile, for displacements up to the one-frame caps.       *)

\* the largest one-frame displacements: Player::advance divides the velocity
\* by OG_FPS
MaxMoveX == DODGE_SPEED \div OG_FPS
MaxMoveY == MAX_FASTFALL_SPEED \div OG_FPS

\* how many units short of the caps and of one unit the displacements go
MoveSpread == 1

MoveAmounts(cap) ==
    {0} \cup {sign * m : sign \in {-1, 1},
                         m \in (1..(1 + MoveSpread)) \cup ((cap - MoveSpread)..cap)}

\* positions next to the walls, the floor and the ceiling of the box and
\* next to its inner tiles
MoveStarts ==
    {h \in [x : {TILE_SIZE + 1, TILE_SIZE + 2, 2 * TILE_SIZE + 500,
                 (BoxWidth - 1) * TILE_SIZE - PLAYER_WIDTH - 1},
            y : {TILE_SIZE + 1, TILE_SIZE + 1000,
                 (BoxHeight - 1) * TILE_SIZE - PLAYER_HEIGHT - 1},
            width : {PLAYER_WIDTH}, height : {PLAYER_HEIGHT}] :
        ~TouchesTile(PillarLevel, h)}

InitMove ==
    /\ GameNew(PillarLevel)
    /\ script = <<>>
    /\ probe \in [op : {"move_by"}, start : MoveStarts,
                  move_x : MoveAmounts(MaxMoveX), move_y : MoveAmounts(MaxMoveY),
                  done : {FALSE}, result : {<<>>}]

ApplyMove ==
    LET p  == [state.players[0] EXCEPT !.hitbox = probe.start]
        on == collide(p, level, p.hitbox.x, p.hitbox.y + 1)
        lw == collide(p, level, p.hitbox.x - 1, p.hitbox.y)
        rw == collide(p, level, p.hitbox.x + 1, p.hitbox.y)
        far == [x |-> -100000, y |-> -100000, width |-> 0, height |-> 0]
    IN  /\ probe.op = "move_by"
        /\ ~probe.done
        /\ probe' = [probe EXCEPT
                       !.done = TRUE,
                       !.result = <<move_by(p, level, probe.move_x, probe.move_y, TRUE,
                                            on, lw, rw, far, far).hitbox>>]
        /\ UNCHANGED <<level, script, state, cells, snapshots, loaded_from,
                       last_checksum, periodic_checksum>>

SpecMove == InitMove /\ [][ApplyMove]_vars

----------------------------------------------------------------------------
(* SpecPlay: a session without rollback.  Every frame the players hold one  *)
(* of a few input pairs - a dodge of either player into the other, a throw  *)
(* at the other - for MaxPlayFrame frames; the sounds are played at any     *)
(* time.                                                                     *)

MaxPlayFrame == 4

PlayInputs ==
    {NoInput,
     Pair(INPUT_DODGE + INPUT_RIGHT, 0),
     Pair(0, INPUT_DODGE + INPUT_LEFT),
     Pair(INPUT_ATTACK + INPUT_RIGHT, INPUT_JUMP)}

InitPlay ==
    /\ GameNew(ArenaLevel)
    /\ script = <<>>
    /\ probe = <<>>

PlayAdvance ==
    /\ state.frame < MaxPlayFrame
    /\ \E inputs \in NextInputs(PlayInputs) : AdvanceFrame(inputs)

NextPlay == PlayAdvance \/ HandleSounds

SpecPlay == InitPlay /\ [][NextPlay]_vars

----------------------------------------------------------------------------
(* SpecRound: a round that ends and is left alone.  One player kills the    *)
(* other in the first frames - by a dodge of either player or by a throw -  *)
(* and no input follows up to frame MaxRoundFrame; as in the loop of        *)
(* main.rs, the sounds an advance has queued are played before the next     *)
(* advance.                                                                  *)

MaxRoundFrame == 306

RoundScripts ==
    {<<Pair(INPUT_DODGE + INPUT_RIGHT, 0)>>,
     <<Pair(0, INPUT_DODGE + INPUT_LEFT)>>,
     <<NoInput, Pair(INPUT_ATTACK + INPUT_RIGHT, 0)>>}

InitRound ==
    /\ GameNew(ArenaLevel)
    /\ script \in RoundScripts
    /\ probe = <<>>

RoundAdvance ==
    /\ ~SoundsPending
    /\ state.frame < MaxRoundFrame
    /\ \E inputs \in NextInputs({NoInput}) : AdvanceFrame(inputs)

NextRound == RoundAdvance \/ HandleSounds

SpecRound == InitRound /\ [][NextRound]_vars

----------------------------------------------------------------------------
(* SpecHold: buttons held through the end of a round.  The script's last    *)
(* pair of masks is supplied again for every later frame up to              *)
(* MaxHoldFrame, so whatever a player holds then is held without a break    *)
(* through the death, the countdown and the reset.                          *)

MaxHoldFrame == 310

HoldScripts ==
    {<<Pair(0, INPUT_DODGE + INPUT_LEFT), Pair(INPUT_JUMP, INPUT_ATTACK)>>,
     <<Pair(INPUT_DODGE + INPUT_RIGHT, 0), Pair(INPUT_ATTACK + INPUT_DODGE, 0)>>,
     <<NoInput, Pair(INPUT_ATTACK + INPUT_RIGHT, 0)>>}

\* the masks the session delivers for a frame
HeldInputs(frame) == script[IF frame < Len(script) THEN frame ELSE Len(script)]

InitHold ==
    /\ GameNew(ArenaLevel)
    /\ script \in HoldScripts
    /\ probe = <<>>

HoldAdvance ==
    /\ ~SoundsPending
    /\ state.frame < MaxHoldFrame
    /\ AdvanceFrame(HeldInputs(state.frame + 1))

NextHold == HoldAdvance \/ HandleSounds

SpecHold == InitHold /\ [][NextHold]_vars

----------------------------------------------------------------------------
(* SpecDuel: two dodges that meet.  Player one dodges or slides to the      *)
(* right on the first frame and may jump out of it later; player two        *)
(* answers a few frames on with a dodge or a throw; the frames run on to    *)
(* MaxDuelFrame, past the end of both dodges.                               *)

MaxDuelFrame == 12

DuelScripts ==
    {[f \in 1..MaxDuelFrame |->
         Pair(IF f = 1 THEN opening ELSE IF f = jump_frame THEN INPUT_JUMP ELSE 0,
              IF f = answer_frame THEN answer ELSE 0)]
     : opening \in {INPUT_DODGE + INPUT_RIGHT, INPUT_DODGE + INPUT_DOWN + INPUT_RIGHT},
       jump_frame \in {0, 4, 5},
       answer_frame \in 2..4,
       answer \in {INPUT_DODGE, INPUT_DODGE + INPUT_RIGHT, INPUT_ATTACK + INPUT_LEFT}}

InitDuel ==
    /\ GameNew(ArenaLevel)
    /\ script \in DuelScripts
    /\ probe = <<>>

DuelAdvance ==
    /\ ~SoundsPending
    /\ state.frame < MaxDuelFrame
    /\ \E inputs \in NextInputs({NoInput}) : AdvanceFrame(inputs)

NextDuel == DuelAdvance \/ HandleSounds

SpecDuel == InitDuel /\ [][NextDuel]_vars

----------------------------------------------------------------------------
(* SpecBoomerang: one player, standing, throws on the second frame - in the *)
(* direction faced, up, down or diagonally - and no input follows up to     *)
(* frame MaxThrowFrame; the sounds an advance has queued are played before  *)
(* the next advance.  The loop of main.rs keeps advancing: the steps are    *)
(* weakly fair.                                                              *)

MaxThrowFrame == 90

ThrowScripts ==
    {<<NoInput, Pair(INPUT_ATTACK + d, 0)>> :
        d \in {0, INPUT_UP, INPUT_DOWN + INPUT_LEFT, INPUT_UP + INPUT_RIGHT}}
    \cup {<<NoInput, Pair(0, INPUT_ATTACK + d)>> :
        d \in {0, INPUT_DOWN, INPUT_UP + INPUT_LEFT}}

InitBoomerang ==
    /\ GameNew(ArenaLevel)
    /\ script \in ThrowScripts
    /\ probe = <<>>

BoomerangFrame ==
    /\ ~SoundsPending
    /\ state.frame < MaxThrowFrame
    /\ \E inputs \in NextInputs({NoInput}) : AdvanceFrame(inputs)

NextBoomerang == BoomerangFrame \/ HandleSounds

\* NextBoomerang is enabled exactly in these states
BoomerangCanStep == SoundsPending \/ state.frame < MaxThrowFrame

\* weak fairness of NextBoomerang, WF_vars(NextBoomerang), written with its
\* enabling condition: steps keep being taken unless none is possible
SpecBoomerang ==
    /\ InitBoomerang
    /\ [][NextBoomerang]_vars
    /\ ([]<>(~BoomerangCanStep) \/ []<><<NextBoomerang>>_vars)

----------------------------------------------------------------------------
(* SpecRelaunch: the session of SpecBoomerang with a second press of attack *)
(* two frames after the throw, in another direction, while the boomerang is *)
(* in flight.                                                                *)

RelaunchScripts ==
    {<<NoInput, Pair(INPUT_ATTACK + first, 0), NoInput, Pair(INPUT_ATTACK + second, 0)>> :
        first \in {0, INPUT_UP + INPUT_RIGHT}, second \in {INPUT_UP, INPUT_LEFT}}
    \cup {<<NoInput, Pair(0, INPUT_ATTACK), NoInput, Pair(0, INPUT_ATTACK + INPUT_RIGHT)>>}

InitRelaunch ==
    /\ GameNew(ArenaLevel)
    /\ script \in RelaunchScripts
    /\ probe = <<>>

SpecRelaunch == InitRelaunch /\ [][NextBoomerang]_vars

----------------------------------------------------------------------------
(* SpecLate: the last frames an i32 frame counter can count.  The session   *)
(* starts in the State a round reset leaves at frame LateFrame - the        *)
(* players and boomerangs recreated, the particles of the explosion long    *)
(* finished, the curtain long open - and the first advance takes every      *)
(* 8-bit mask of either player.                                              *)

LateFrame == I32Max - 1

LateState(lv) ==
    StateReset([StateNew(lv) EXCEPT !.frame = LateFrame,
                                    !.curtain = [opacity |-> 0]])

\* every mask of one player with the other player idle
MaskPairs == {Pair(m, 0) : m \in 0..255} \cup {Pair(0, m) : m \in 0..255}

InitLate ==
    /\ level = ArenaLevel
    /\ state = LateState(ArenaLevel)
    /\ last_checksum = <<NULL_FRAME, 0>>
    /\ periodic_checksum = <<NULL_FRAME, 0>>
    /\ cells = [c \in Cells |-> EmptyCell]
    /\ snapshots = [c \in Cells |-> <<>>]
    /\ loaded_from = "none"
    /\ script = <<>>
    /\ probe = <<>>

LateAdvance ==
    /\ state.frame >= LateFrame
    /\ \E inputs \in (IF state.frame = LateFrame THEN MaskPairs ELSE {NoInput}) :
           AdvanceFrame(inputs)

SpecLate == InitLate /\ [][LateAdvance]_vars

----------------------------------------------------------------------------
(* SpecPool: the "update particles" block of State::advance on its own.    *)
(* The pool starts full but for a few free slots, every particle within    *)
(* the budget of its animation, and the players hold up to MaxSpawns       *)
(* queued spawns; the block then runs for MaxPoolFrame frames.  probe      *)
(* keeps the pool as it was before the block and as the spawns left it.    *)

MaxSpawns == 3
MaxPoolFrame == 21

\* the slots left free
FreeSlots == {{}, {0}, {NUM_PARTICLES - 1}, {3, 7}, {1, 2, 3, 4}}

\* a pool of running particles, free at the slots of free; slot 0 is
\* one frame short of its budget when last is true
Pool(free, last) ==
    [i \in 0..(NUM_PARTICLES - 1) |->
        IF i \in free THEN ParticleNew
        ELSE IF i % 2 = 0
        THEN [position |-> [x |-> i, y |-> -i], velocity |-> [x |-> 3, y |-> -2],
              current_animation |-> "simple",
              current_animation_frame |-> IF i = 0 /\ last THEN 49 ELSE 30 + (i % 20)]
        ELSE [position |-> [x |-> i, y |-> i], velocity |-> [x |-> 0, y |-> 0],
              current_animation |-> "grounddust",
              current_animation_frame |-> i % 20]]

\* the spawns a player may have queued
Spawns ==
    {<<[x |-> 1000, y |-> 2000], "grounddust">>, <<[x |-> -5, y |-> 7], "simple">>}

SpawnQueues(longest) == UNION {[1..n -> Spawns] : n \in 0..longest}

InitPool ==
    /\ level = ArenaLevel
    /\ \E free \in FreeSlots, last \in BOOLEAN,
          q0 \in SpawnQueues(MaxSpawns), q1 \in SpawnQueues(1) :
           state = [StateNew(ArenaLevel) EXCEPT
                      !.particles = Pool(free, last),
                      !.players[0].particle_spawns = q0,
                      !.players[1].particle_spawns = q1]
    /\ last_checksum = <<NULL_FRAME, 0>>
    /\ periodic_checksum = <<NULL_FRAME, 0>>
    /\ cells = [c \in Cells |-> EmptyCell]
    /\ snapshots = [c \in Cells |-> <<>>]
    /\ loaded_from = "none"
    /\ script = <<>>
    /\ probe = [op |-> "update_particles", frames |-> 0, before |-> <<>>, spawned |-> <<>>]

ApplyUpdateParticles ==
    /\ probe.op = "update_particles"
    /\ probe.frames < MaxPoolFrame
    /\ state' = UpdateParticles(state)
    /\ probe' = [probe EXCEPT !.frames = @ + 1,
                              !.before = <<state>>,
                              !.spawned = <<SpawnParticles(SpawnParticles(state, 0), 1)>>]
    /\ UNCHANGED <<level, script, cells, snapshots, loaded_from,
                   last_checksum, periodic_checksum>>

SpecPool == InitPool /\ [][ApplyUpdateParticles]_vars

----------------------------------------------------------------------------
(* SpecRespond: the move_by at the end of movement and dodge_movement, by   *)
(* the velocity of one frame.  The player is on the floor or in the air,    *)
(* against a wall, near one or away from both, with a velocity on either    *)
(* axis at rest, slow or at dodge speed, in a dodge or not; the ground and  *)
(* wall flags are probed before the move as Player::advance probes them.    *)

RespondSpeeds == {-DODGE_SPEED, -(WALL_STICKINESS \div 2), 0, WALL_STICKINESS \div 2, DODGE_SPEED}

RespondStarts ==
    {p \in {[PlayerNew(x, y, FALSE) EXCEPT !.velocity = [x |-> vx, y |-> vy],
                                           !.dodge_timer = t] :
               x \in {TILE_SIZE, TILE_SIZE + 500,
                      (BoxWidth - 1) * TILE_SIZE - PLAYER_WIDTH - 500,
                      (BoxWidth - 1) * TILE_SIZE - PLAYER_WIDTH - 1},
               y \in {(BoxHeight - 1) * TILE_SIZE - PLAYER_HEIGHT - 1, TILE_SIZE + 2000},
               vx \in RespondSpeeds, vy \in RespondSpeeds, t \in {0, DODGE_DURATION - 1}} :
        ~collide(p, ArenaLevel, p.hitbox.x, p.hitbox.y)}

InitRespond ==
    /\ GameNew(ArenaLevel)
    /\ script = <<>>
    /\ probe \in [op : {"move_by_velocity"}, p : RespondStarts,
                  done : {FALSE}, result : {<<>>}]

ApplyMoveByVelocity ==
    /\ probe.op = "move_by_velocity"
    /\ ~probe.done
    /\ probe' = [probe EXCEPT
                   !.done = TRUE,
                   !.result = <<MoveByVelocity(
                                   probe.p, level,
                                   collide(probe.p, level, probe.p.hitbox.x, probe.p.hitbox.y + 1),
                                   collide(probe.p, level, probe.p.hitbox.x - 1, probe.p.hitbox.y),
                                   collide(probe.p, level, probe.p.hitbox.x + 1, probe.p.hitbox.y),
                                   [x |-> -100000, y |-> -100000, width |-> 0, height |-> 0],
                                   [x |-> -100000, y |-> -100000, width |-> 0, height |-> 0])>>]
    /\ UNCHANGED <<level, script, state, cells, snapshots, loaded_from,
                   last_checksum, periodic_checksum>>

SpecRespond == InitRespond /\ [][ApplyMoveByVelocity]_vars

----------------------------------------------------------------------------
(* SpecSolo: Player::advance on its own, with no opponent and no boomerang  *)
(* near.  A level places a new player on the floor or in the air, at a wall *)
(* or away from the walls; the player then follows a script of inputs: it   *)
(* may run up first, then presses a dodge, a jump or both directions, holds *)
(* something for a while, may press jump, dodge or one after the other,    *)
(* and lets go, for MaxSoloFrame frames in all.  probe keeps the player, the player before the last       *)
(* frame, and the last two inputs.                                          *)

MaxSoloFrame == 24

\* k frames of the mask m
Hold(m, k) == [i \in 1..k |-> m]

SoloRunUps == {<<>>, Hold(INPUT_LEFT, 2)}

SoloPresses ==
    {INPUT_DODGE, INPUT_DODGE + INPUT_DOWN, INPUT_DODGE + INPUT_DOWN + INPUT_RIGHT,
     INPUT_DODGE + INPUT_LEFT, INPUT_DODGE + INPUT_RIGHT, INPUT_DODGE + INPUT_UP,
     INPUT_DODGE + INPUT_LEFT + INPUT_RIGHT, INPUT_JUMP, INPUT_LEFT + INPUT_RIGHT}

SoloHolds ==
    {Hold(0, 1), Hold(0, 4), Hold(INPUT_DOWN, 4), Hold(INPUT_RIGHT, 10), Hold(0, 10)}

SoloFollowUps == {<<0>>, <<INPUT_JUMP>>, <<INPUT_DODGE>>, <<INPUT_JUMP, INPUT_DODGE>>}

SoloScripts ==
    {run_up \o <<press>> \o hold \o follow_up
        \o Hold(0, MaxSoloFrame - (Len(run_up) + Len(hold) + Len(follow_up) + 1)) :
        run_up \in SoloRunUps, press \in SoloPresses, hold \in SoloHolds,
        follow_up \in SoloFollowUps}

\* on the floor and in the air; flush with the left wall, away from the
\* walls, next to the right wall
SoloStarts ==
    {PlayerNew(x, y, FALSE) :
        x \in {TILE_SIZE, 3 * TILE_SIZE, (BoxWidth - 1) * TILE_SIZE - PLAYER_WIDTH - 1},
        y \in {(BoxHeight - 1) * TILE_SIZE - PLAYER_HEIGHT - 1, TILE_SIZE + 2000}}

\* a hitbox nothing meets
Nowhere == [x |-> -100000, y |-> -100000, width |-> 0, height |-> 0]

InitSolo ==
    /\ GameNew(ArenaLevel)
    /\ script \in SoloScripts
    /\ probe \in [op : {"advance"}, p : SoloStarts, before : {<<>>},
                  input : {0}, prev_input : {0}, frames : {0}]

SoloAdvance ==
    /\ probe.op = "advance"
    /\ script # <<>>
    /\ probe' = [probe EXCEPT
                   !.p = PlayerAdvance(probe.p, Head(script), probe.input, level,
                                       Nowhere, Nowhere),
                   !.before = <<probe.p>>,
                   !.input = Head(script),
                   !.prev_input = probe.input,
                   !.frames = @ + 1]
    /\ script' = Tail(script)
    /\ UNCHANGED <<level, state, cells, snapshots, loaded_from, last_checksum,
                   periodic_checksum>>

SpecSolo == InitSolo /\ [][SoloAdvance]_vars

----------------------------------------------------------------------------
(* SpecRedodge: one player that dodges twice.  After the first dodge the    *)
(* player either waits for it to run out or jumps out of it, and presses    *)
(* dodge again a few frames later; the probe also remembers the frame in    *)
(* which the last dodge ended (dodge_end, 0 for none).                      *)

RedodgePresses ==
    {INPUT_DODGE + INPUT_LEFT, INPUT_DODGE + INPUT_RIGHT,
     INPUT_DODGE + INPUT_DOWN + INPUT_RIGHT}

RedodgeScripts ==
    {<<press>> \o hold \o <<INPUT_JUMP>> \o Hold(0, gap) \o <<INPUT_DODGE>>
         \o Hold(0, MaxSoloFrame - (Len(hold) + gap + 3))
     : press \in RedodgePresses,
       hold \in {Hold(INPUT_DOWN, 4), Hold(0, 4)},
       gap \in {2, 5, 8}}
    \cup
    {<<press>> \o Hold(0, wait) \o <<INPUT_DODGE>>
         \o Hold(0, MaxSoloFrame - (wait + 2))
     : press \in RedodgePresses, wait \in {16, 17, 20}}

InitRedodge ==
    /\ GameNew(ArenaLevel)
    /\ script \in RedodgeScripts
    /\ probe \in [op : {"advance"}, p : SoloStarts, before : {<<>>}, input : {0},
                   prev_input : {0}, frames : {0}, dodge_end : {0}]

RedodgeAdvance ==
    /\ probe.op = "advance"
    /\ script # <<>>
    /\ \E next \in {PlayerAdvance(probe.p, Head(script), probe.input, level,
                                   Nowhere, Nowhere)} :
           probe' = [probe EXCEPT !.p = next,
                                  !.before = <<probe.p>>,
                                  !.input = Head(script),
                                  !.prev_input = probe.input,
                                  !.frames = @ + 1,
                                  !.dodge_end = IF probe.p.dodge_timer > 0
                                                   /\ next.dodge_timer = 0
                                                THEN probe.frames + 1 ELSE @]
    /\ script' = Tail(script)
    /\ UNCHANGED <<level, state, cells, snapshots, loaded_from, last_checksum,
                   periodic_checksum>>

SpecRedodge == InitRedodge /\ [][RedodgeAdvance]_vars

----------------------------------------------------------------------------
(* The claims. *)

\* C8: do_hitboxes_overlap(a, b) is true exactly when the closed rectangles
\* [x, x + width] x [y, y + height] of a and b intersect; two hitboxes that
\* touch exactly at an edge are reported as overlapping; the test gives the
\* same answer with a and b exchanged.
C8_OverlapInclusive ==
    (probe.op = "do_hitboxes_overlap" /\ probe.done) =>
        /\ probe.result = RectanglesIntersect(probe.a, probe.b)
        /\ probe.result = do_hitboxes_overlap(probe.b, probe.a)
        /\ TouchAtEdge(probe.a, probe.b) => probe.result

\* two hitboxes of positive size that meet only along the edge
\* a.x + a.width = b.x were tested and reported as overlapping
C8_EdgeTouchTested ==
    /\ probe.op = "do_hitboxes_overlap" /\ probe.done
    /\ probe.a.width > 0 /\ probe.b.width > 0
    /\ probe.a.x + probe.a.width = probe.b.x
    /\ probe.a.y = probe.b.y
    /\ probe.result

\* C9: collide(level, x, y) is true exactly when some occupied in-bounds
\* tile's AABB overlaps (inclusive test) the player's hitbox placed at
\* (x, y), a tile that only touches the hitbox's left or top edge included.
C9_ProbeIsTileOverlap ==
    (probe.op = "collide" /\ probe.done) =>
        probe.result = TouchesTile(level, [x |-> probe.x, y |-> probe.y,
                                           width |-> PLAYER_WIDTH,
                                           height |-> PLAYER_HEIGHT])

\* C4: a player that overlaps no occupied tile and is moved by move_by, by
\* a displacement within the one-frame caps, ends at a hitbox that overlaps
\* (inclusive test) no occupied tile.
C4_NoTunneling ==
    (probe.op = "move_by" /\ probe.done) => ~TouchesTile(level, probe.result[1])

\* the input pairs the round trip is followed by
RoundTripInputs ==
    {NoInput, Pair(INPUT_DODGE + INPUT_LEFT, INPUT_ATTACK + INPUT_LEFT)}

C3_SnapshotIsolation ==
    /\ \A c \in Cells :
           cells[c].data # <<>> =>
               /\ cells[c].data = snapshots[c]
               /\ cells[c].frame = snapshots[c][1].frame
               /\ cells[c].checksum = <<Checksum(snapshots[c][1])>>
    /\ loaded_from # "none" => state = snapshots[loaded_from][1]

\* two snapshots of different frames are held, the game has advanced past
\* both, and the older one has just been loaded
C3_OlderSnapshotLoaded ==
    /\ loaded_from = "c0"
    /\ cells["c0"].data # <<>> /\ cells["c1"].data # <<>>
    /\ cells["c0"].frame < cells["c1"].frame
    /\ cells["c1"].frame < last_checksum[1]

\* C5: in any frame that both players enter alive and in which, when the
\* frame's combat is resolved, player A is dodging (dodge_timer > 0), player
\* B is not and their hitboxes overlap, player B is dead and round_end_frame
\* is the current frame after that frame's advance, whether B is player 0
\* or player 1.
C5_DodgeKills ==
    [][\A b \in 0..1 :
          (/\ state'.frame # state.frame
           /\ ~state.players[0].is_dead /\ ~state.players[1].is_dead
           /\ state'.players[1 - b].dodge_timer > 0
           /\ state'.players[b].dodge_timer = 0
           /\ do_hitboxes_overlap(state'.players[0].hitbox, state'.players[1].hitbox))
          => (/\ state'.players[b].is_dead
              /\ state'.round_end_frame = state'.frame)]_vars

\* both players alive at their spawn coordinates with zero velocity and
\* cleared timers, both boomerangs holstered, no round end stamped
RoundFresh(s) ==
    /\ s.round_end_frame = -1
    /\ \A n \in 0..1 :
           /\ ~s.players[n].is_dead
           /\ s.players[n].hitbox = StateNew(level).players[n].hitbox
           /\ s.players[n].velocity = [x |-> 0, y |-> 0]
           /\ s.players[n].dodge_timer = 0
           /\ s.players[n].dodge_cooldown = 0
           /\ s.boomerangs[n].is_holstered
           /\ s.boomerangs[n].flight_time = 0

\* C6: once a death has stamped round_end_frame = f and no input follows,
\* no advance up to frame f + RESET_DELAY resets the round (the stamp and
\* the dead player stay), and the advance to frame f + RESET_DELAY + 1
\* = f + 301 does: right after it both players are alive at their spawn
\* coordinates with zero velocity and cleared timers, both boomerangs are
\* holstered and round_end_frame is -1.
C6_ResetAfterDelay ==
    [][(state.round_end_frame # -1 /\ state'.frame # state.frame) =>
          LET f == state.round_end_frame
          IN  /\ state'.frame <= f + RESET_DELAY + 1
              /\ state'.frame <= f + RESET_DELAY =>
                     /\ state'.round_end_frame = f
                     /\ state'.round_start_frame = state.round_start_frame
                     /\ \E n \in 0..1 : state'.players[n].is_dead
              /\ state'.frame = f + RESET_DELAY + 1 => RoundFresh(state')]_vars

\* the round has just been reset, RESET_DELAY + 1 frames after a death
C6_RoundWasReset ==
    /\ state.frame > RESET_DELAY
    /\ state.round_start_frame = state.frame
    /\ RoundFresh(state)

\* the distance from the centre of the boomerang b to the centre of owner
DistanceToOwner(owner, b) ==
    length_as_int([x |-> center_x(owner) - center_x(b),
                   y |-> center_y(owner) - center_y(b)])

\* an advance with the boomerang of player n in flight, its owner alive and
\* no new press of the attack button
FlightStep(n) ==
    /\ state'.frame # state.frame
    /\ ~state.boomerangs[n].is_holstered
    /\ ~state'.players[n].is_dead
    /\ ~input_pressed(INPUT_ATTACK, state'.prev_inputs[n], state.prev_inputs[n])

\* C7: a boomerang launched by a live owner who stays where he is, with no
\* further attack edge, is re-holstered by the first advance that finds
\* flight_time > 6 and the remaining distance to the owner within one
\* step of length MAX_SPEED / OG_FPS, and by no other: never while
\* flight_time <= 6; re-holstering resets flight_time to 0, any other
\* advance adds one to it; and every boomerang in flight is eventually
\* holstered again with flight_time = 0.
C7_BoomerangReturns ==
    /\ [][\A n \in 0..1 :
             FlightStep(n) =>
                 /\ state'.boomerangs[n].is_holstered
                        <=> /\ state.boomerangs[n].flight_time > 6
                            /\ MAX_SPEED \div OG_FPS
                                   >= DistanceToOwner(state'.players[n], state.boomerangs[n])
                 /\ state'.boomerangs[n].flight_time
                        = IF state'.boomerangs[n].is_holstered THEN 0
                          ELSE state.boomerangs[n].flight_time + 1]_vars
    /\ \A n \in 0..1 :
           (~state.boomerangs[n].is_holstered /\ ~state.players[n].is_dead)
               ~> (state.boomerangs[n].is_holstered /\ state.boomerangs[n].flight_time = 0)

\* a boomerang that flew for more than 6 frames is back in its holster,
\* its owner alive and where he stood
C7_BackInHolster ==
    \E n \in 0..1 :
        /\ state.frame > 8
        /\ state.frame < RESET_DELAY
        /\ ~state.players[n].is_dead
        /\ state.boomerangs[n].is_holstered /\ state.boomerangs[n].flight_time = 0
        /\ state.boomerangs[n].initial_velocity # [x |-> 0, y |-> 0]
        /\ state.boomerangs[n].hitbox.x # center_x(state.players[n]) - BOOMERANG_SIZE \div 2

\* C10: from every reachable state and for every pair of input masks the
\* advance yields a successor without integer overflow: the frame counter
\* is below i32::MAX when the advance starts and is one more after it.
C10_AdvanceTotal ==
    [][state'.frame # state.frame =>
          /\ state.frame < I32Max
          /\ state'.frame = state.frame + 1]_vars

\* the slots of the pool whose animation tag is "none"
FreeOf(particles) ==
    {i \in 0..(NUM_PARTICLES - 1) : particles[i].current_animation = "none"}

\* the spawns of the block in the order they are taken: each queue from its
\* back, player 0's first
SpawnOrder(s) ==
    [k \in 1..(Len(s.players[0].particle_spawns) + Len(s.players[1].particle_spawns)) |->
        IF k <= Len(s.players[0].particle_spawns)
        THEN s.players[0].particle_spawns[Len(s.players[0].particle_spawns) + 1 - k]
        ELSE s.players[1].particle_spawns[Len(s.players[1].particle_spawns) + 1
                                           - (k - Len(s.players[0].particle_spawns))]]

\* the k-th smallest member of the set of integers S
RECURSIVE KthOf(_, _)
KthOf(S, k) ==
    IF k = 1 THEN CHOOSE i \in S : \A j \in S : i <= j
    ELSE KthOf(S \ {CHOOSE i \in S : \A j \in S : i <= j}, k - 1)

\* C11: get_free_particle_index returns the lowest index whose animation
\* tag is "none", and 0 when no slot is free; the spawns of a frame fill
\* the free slots from the lowest up, every spawn beyond the free slots
\* overwrites slot 0, the pool keeps its NUM_PARTICLES slots and both
\* queues end empty.
C11_PoolAllocation ==
    /\ get_free_particle_index(state.particles) \in 0..(NUM_PARTICLES - 1)
    /\ get_free_particle_index(state.particles)
           = IF FreeOf(state.particles) = {} THEN 0
             ELSE CHOOSE i \in FreeOf(state.particles) :
                      \A j \in FreeOf(state.particles) : i <= j
    /\ (probe.op = "update_particles" /\ probe.frames > 0) =>
           LET before == probe.before[1]
               spawned == probe.spawned[1]
               order == SpawnOrder(before)
               free == FreeOf(before.particles)
               Target(k) == IF k <= Cardinality(free) THEN KthOf(free, k) ELSE 0
           IN  /\ DOMAIN spawned.particles = 0..(NUM_PARTICLES - 1)
               /\ spawned.players[0].particle_spawns = <<>>
               /\ spawned.players[1].particle_spawns = <<>>
               /\ \A i \in 0..(NUM_PARTICLES - 1) :
                      LET hits == {k \in 1..Len(order) : Target(k) = i}
                      IN  IF hits = {} THEN spawned.particles[i] = before.particles[i]
                          ELSE LET k == CHOOSE h \in hits : \A g \in hits : g <= h
                               IN  /\ spawned.particles[i].position = order[k][1]
                                   /\ spawned.particles[i].current_animation = order[k][2]

\* more spawns were queued than slots were free, and slot 0, which was
\* running, holds the last of them
C11_PoolOverflowed ==
    /\ probe.op = "update_particles" /\ probe.frames = 1
    /\ Cardinality(FreeOf(probe.before[1].particles)) = 2
    /\ Len(SpawnOrder(probe.before[1])) = 4
    /\ probe.before[1].particles[0].current_animation = "simple"
    /\ probe.spawned[1].particles[0].current_animation = "grounddust"
    /\ probe.spawned[1].particles[0].position = SpawnOrder(probe.before[1])[4][1]

\* the frames an animation runs for
Budget(animation) == IF animation = "grounddust" THEN 20 ELSE 50

\* C12: in every run of the particle block a particle's animation tag
\* becomes "none" in exactly the advance in which its frame counter reaches
\* the budget of its animation (20 frames for grounddust, 50 for simple),
\* until then the counter goes up by one and the tag stays; after every
\* advance a particle whose tag is not "none" has a counter below its
\* budget, a slot re-used through the slot-0 fallback included.
C12_ParticleExpiry ==
    [][probe'.frames # probe.frames =>
          \A i \in 0..(NUM_PARTICLES - 1) :
              LET mid  == probe'.spawned[1].particles[i]
                  post == state'.particles[i]
              IN  /\ mid.current_animation = "none" => post.current_animation = "none"
                  /\ mid.current_animation # "none" =>
                         /\ post.current_animation = "none"
                                <=> mid.current_animation_frame + 1
                                        = Budget(mid.current_animation)
                         /\ post.current_animation # "none" =>
                                /\ post.current_animation = mid.current_animation
                                /\ post.current_animation_frame
                                       = mid.current_animation_frame + 1
                  /\ post.current_animation # "none" =>
                         post.current_animation_frame < Budget(post.current_animation)]_vars

\* slot 0, taken over by a grounddust spawn that found no free slot, has
\* run its 20 frames and is free again
C12_ReusedSlotExpired ==
    /\ probe.op = "update_particles" /\ probe.frames = 20
    /\ probe.before[1].particles[0].current_animation = "grounddust"
    /\ probe.before[1].particles[0].current_animation_frame = 19
    /\ probe.before[1].particles[0].position = [x |-> 1000, y |-> 2000]
    /\ state.particles[0].current_animation = "none"

\* the particles of s that an explosion has just put at the centre of
\* player n and that have not moved or aged
FreshExplosion(s, n) ==
    {i \in 0..(NUM_PARTICLES - 1) :
        /\ s.particles[i].current_animation = "simple"
        /\ s.particles[i].current_animation_frame = 0
        /\ s.particles[i].position = [x |-> center_x(s.players[n]),
                                      y |-> center_y(s.players[n])]}

\* the step is an advance of the game (a load clears loaded_from' not)
Advanced == state'.frame # state.frame /\ loaded_from' = "none"

\* the advance has reset the round
RoundReset == Advanced /\ state'.round_start_frame # state.round_start_frame

\* player n was alive before the step and is dead after it
DiesInStep(n) == ~state.players[n].is_dead /\ state'.players[n].is_dead

Silenced(s) ==
    [s EXCEPT !.players = [n \in 0..1 |-> [@[n] EXCEPT !.sound_commands = <<>>]],
              !.boomerangs = [n \in 0..1 |-> [@[n] EXCEPT !.sound_commands = <<>>]]]

Mover == [state.players[0] EXCEPT !.hitbox = probe.start]

\* a mover that advances one unit at a time along an axis, for at most
\* amount units, and stops before the first position where Player::collide
\* answers true, ends after travelled units; Blocked(k) is the answer k
\* units along
StopsAt(travelled, amount, Blocked(_)) ==
    /\ 0 <= travelled /\ travelled <= amount
    /\ \A k \in 1..travelled : ~Blocked(k)
    /\ travelled = amount \/ Blocked(travelled + 1)

\* C15: on each axis the swept move with the steps 1000, 100, 10, 1 ends
\* where a mover that advances one unit at a time and stops at the first
\* colliding position ends: in the direction of travel, after the whole
\* displacement or just before a position that collides, with no colliding
\* position passed on the way; the y axis is swept from the position the x
\* axis has ended at.
C15_SweepMaximal ==
    (probe.op = "move_by" /\ probe.done) =>
        LET signx == IF probe.move_x > 0 THEN 1 ELSE -1
            signy == IF probe.move_y > 0 THEN 1 ELSE -1
            end   == probe.result[1]
            BlockedX(k) == collide(Mover, level, probe.start.x + k * signx, probe.start.y)
            BlockedY(k) == collide(Mover, level, end.x, probe.start.y + k * signy)
        IN  /\ StopsAt((end.x - probe.start.x) * signx, Abs(probe.move_x), BlockedX)
            /\ StopsAt((end.y - probe.start.y) * signy, Abs(probe.move_y), BlockedY)

\* a move that a wall has stopped on x after steps of every size, and that
\* went its whole way on y
C15_StoppedAfterEveryStep ==
    /\ probe.op = "move_by" /\ probe.done
    /\ Abs(probe.result[1].x - probe.start.x) > 1000
    /\ Abs(probe.result[1].x - probe.start.x) % 1000 > 100
    /\ Abs(probe.result[1].x - probe.start.x) % 100 > 10
    /\ Abs(probe.result[1].x - probe.start.x) % 10 > 0
    /\ Abs(probe.result[1].x - probe.start.x) < Abs(probe.move_x)
    /\ probe.move_y # 0
    /\ probe.result[1].y - probe.start.y = probe.move_y

\* what the combat resolution of state c decides for player n
Doomed(c, n) ==
    /\ c.players[n].dodge_timer = 0
    /\ \/ c.players[n].collided_with_player /\ c.players[1 - n].dodge_timer > 0
       \/ c.players[n].collided_with_boomerang /\ ~c.boomerangs[1 - n].is_holstered

\* C16: a live player becomes dead in an advance exactly when, at the
\* combat resolution of that frame, its own dodge_timer is 0 and either its
\* collided_with_player flag is set while the opponent's dodge_timer is
\* positive, or its collided_with_boomerang flag is set while the opponent's
\* boomerang is not holstered; a player whose dodge_timer is positive at
\* the combat resolution is never killed.
C16_DeathConditions ==
    [][Advanced =>
          \A n \in 0..1 :
              ~state.players[n].is_dead =>
                  \A c \in {AtCombat(state, state'.prev_inputs, level)} :
                      /\ state'.players[n].is_dead <=> Doomed(c, n)
                      /\ c.players[n].dodge_timer > 0 => ~state'.players[n].is_dead]_vars

\* a player a dodging opponent has run into and killed, next to an opponent
\* that has met the same body and lives because it dodges
C16_KilledByDodger ==
    \E n \in 0..1 :
        /\ state.players[n].is_dead
        /\ state.round_end_frame = state.frame
        /\ state.players[n].collided_with_player
        /\ ~state.players[n].collided_with_boomerang
        /\ state.players[n].dodge_timer = 0
        /\ ~state.players[1 - n].is_dead
        /\ state.players[1 - n].collided_with_player
        /\ state.players[1 - n].dodge_timer > 0

\* the motion of a player: its hitbox, velocity, facing, timers and its
\* dodge and jump flags
Motion(p) ==
    <<p.hitbox, p.velocity, p.is_facing_left,
      p.dodge_timer, p.dodge_timer_duration, p.dodge_cooldown,
      p.can_dodge, p.can_double_jump, p.is_sliding, p.is_wall_sliding,
      p.is_super_jumping, p.is_super_jumping_off_wall_slide,
      p.was_on_ground, p.was_on_wall>>

\* the flight of a boomerang
Flight(b) == <<b.hitbox, b.velocity, b.flight_time, b.is_holstered>>

\* C17: from the frame after a player dies until the round is reset, an
\* advance leaves that player's hitbox, velocity, facing, timers and dodge
\* and jump flags as they are, and its boomerang's hitbox, velocity,
\* flight_time and holstered flag as well, whatever the inputs of that
\* player.
C17_DeadSkipped ==
    [][(Advanced /\ ~RoundReset) =>
          \A n \in 0..1 :
              state.players[n].is_dead =>
                  /\ state'.players[n].is_dead
                  /\ Motion(state'.players[n]) = Motion(state.players[n])
                  /\ Flight(state'.boomerangs[n]) = Flight(state.boomerangs[n])]_vars

\* a dead player, frames after its death, that has just been given a dodge
\* or an attack
C17_DeadWithInput ==
    \E n \in 0..1 :
        /\ state.players[n].is_dead
        /\ state.frame > state.round_end_frame + 1
        /\ \/ input_check(INPUT_DODGE, state.prev_inputs[n])
           \/ input_check(INPUT_ATTACK, state.prev_inputs[n])

\* C18: at every frame boundary - after an advance and its round-reset
\* check, after the load of a saved state - round_end_frame is -1 exactly
\* when both players are alive, and otherwise is a frame of the round so
\* far: round_start_frame <= round_end_frame <= frame.
C18_RoundSentinel ==
    /\ state.round_end_frame = -1 <=> \A n \in 0..1 : ~state.players[n].is_dead
    /\ state.round_end_frame # -1 =>
           /\ state.round_start_frame <= state.round_end_frame
           /\ state.round_end_frame <= state.frame

\* the round after a reset, both players alive again
C18_SecondRound ==
    /\ state.round_start_frame > RESET_DELAY
    /\ state.round_end_frame = -1
    /\ state.frame > state.round_start_frame

\* a frame of Player::advance has run in SpecSolo
Framed == probe.op = "advance" /\ probe.frames > 0

\* the player before the last frame
Before == probe.before[1]

\* the last frame has begun a dodge
DodgeBegan ==
    /\ input_pressed(INPUT_DODGE, probe.input, probe.prev_input)
    /\ Before.dodge_timer = 0
    /\ Before.dodge_cooldown = 0
    /\ Before.can_dodge

\* a timer one frame on
Ticked(timer) == IF timer > 0 THEN timer - 1 ELSE 0

\* C19: on every frame dodge_timer goes down by exactly one if it is
\* positive and stays 0 otherwise, and so does dodge_cooldown; the only
\* exceptions are the frame a dodge begins, for dodge_timer, and the frame
\* the dodge timer expires, for dodge_cooldown; neither timer is ever
\* negative.
C19_TimersTick ==
    Framed =>
        /\ ~DodgeBegan => probe.p.dodge_timer = Ticked(Before.dodge_timer)
        /\ ~(Before.dodge_timer > 0 /\ probe.p.dodge_timer = 0) =>
               probe.p.dodge_cooldown = Ticked(Before.dodge_cooldown)
        /\ probe.p.dodge_timer >= 0
        /\ probe.p.dodge_cooldown >= 0

\* C20: whenever dodge_timer is positive at the start of a frame and zero
\* at the end of it, both is_sliding and is_wall_sliding are false at the
\* end of that frame and dodge_cooldown equals DODGE_COOLDOWN.
C20_DodgeExpiry ==
    (Framed /\ Before.dodge_timer > 0 /\ probe.p.dodge_timer = 0) =>
        /\ ~probe.p.is_sliding
        /\ ~probe.p.is_wall_sliding
        /\ probe.p.dodge_cooldown = DODGE_COOLDOWN

\* a dodge is under way after the last frame and was not before it
NewDodge == Before.dodge_timer = 0 /\ probe.p.dodge_timer > 0

\* C21: a player begins a dodge in a frame exactly when the dodge bit has
\* a press edge, dodge_timer and dodge_cooldown are 0 and can_dodge is
\* true.  The dodge lasts SLIDE_DURATION with is_sliding set if DOWN is
\* held, DODGE_DURATION otherwise, with is_wall_sliding set if the heading
\* points into a wall the player touches; with no direction held the
\* heading is the direction faced; can_dodge becomes false.
C21_DodgeStart ==
    Framed =>
        /\ NewDodge <=> DodgeBegan
        /\ DodgeBegan =>
              LET left  == collide(Before, level, Before.hitbox.x - 1, Before.hitbox.y)
                  right == collide(Before, level, Before.hitbox.x + 1, Before.hitbox.y)
                  duration == IF input_check(INPUT_DOWN, probe.input)
                              THEN SLIDE_DURATION ELSE DODGE_DURATION
                  no_direction == \A bit \in {INPUT_UP, INPUT_DOWN, INPUT_LEFT, INPUT_RIGHT} :
                                      ~input_check(bit, probe.input)
              IN  /\ probe.p.dodge_timer_duration = duration
                  /\ probe.p.dodge_timer = duration - 1
                  /\ input_check(INPUT_DOWN, probe.input) => probe.p.is_sliding
                  /\ ~input_check(INPUT_DOWN, probe.input) =>
                         /\ ~probe.p.is_sliding
                         /\ (\/ left /\ probe.p.velocity.x < 0
                             \/ right /\ probe.p.velocity.x > 0) => probe.p.is_wall_sliding
                  /\ no_direction =>
                         probe.p.velocity = [x |-> IF Before.is_facing_left
                                                   THEN -DODGE_SPEED ELSE DODGE_SPEED,
                                             y |-> 0]
                  /\ ~probe.p.can_dodge

\* a slide begun in the air
C21_SlideBegun ==
    /\ Framed /\ DodgeBegan
    /\ input_check(INPUT_DOWN, probe.input)
    /\ probe.p.is_sliding
    /\ probe.p.dodge_timer = SLIDE_DURATION - 1

\* the vertical velocity gravity makes of the one before the last frame, as
\* dodge_movement adds it
Fallen ==
    LET gravity == IF /\ input_check(INPUT_DOWN, probe.input)
                      /\ Before.velocity.y > -JUMP_CANCEL_POWER
                   THEN FASTFALL_GRAVITY ELSE GRAVITY
    IN  Min(Before.velocity.y + gravity \div OG_FPS, MAX_FASTFALL_SPEED)

\* C22: in every frame in which the player is dodging (dodge_timer > 0 at
\* the start of the frame) - ground slide, wall-slide dodge and generic
\* dodge alike - gravity (GRAVITY / OG_FPS, or FASTFALL_GRAVITY / OG_FPS
\* when fast-falling) is added to the vertical velocity before the move,
\* capped at MAX_FASTFALL_SPEED: unless a jump is pressed, the player moves
\* by that velocity, or as far towards it as the tiles allow.
C22_GravityWhileDodging ==
    (/\ Framed
     /\ Before.dodge_timer > 0
     /\ ~input_pressed(INPUT_JUMP, probe.input, probe.prev_input)) =>
        \/ probe.p.hitbox.y - Before.hitbox.y = IDiv(Fallen, OG_FPS)
        \/ collide(probe.p, level, probe.p.hitbox.x,
                   probe.p.hitbox.y + (IF Fallen > 0 THEN 1 ELSE -1))

\* what C23 compares of a player: its velocity, position and facing
Moved(p) == <<p.velocity, p.hitbox, p.is_facing_left>>

\* the masks with both LEFT and RIGHT set
BothWays == {m \in 0..255 : input_check(INPUT_LEFT, m) /\ input_check(INPUT_RIGHT, m)}

\* C23: from every reachable state, a frame whose input has both LEFT and
\* RIGHT set moves the player - velocity, position, facing, the heading
\* of a dodge - exactly as the same frame with neither LEFT nor RIGHT
\* set; neither direction wins.
C23_OppositeDirectionsCancel ==
    probe.op = "advance" =>
        \A m \in BothWays :
            Moved(PlayerAdvance(probe.p, m, probe.input, level, Nowhere, Nowhere))
                = Moved(PlayerAdvance(probe.p, m - (INPUT_LEFT + INPUT_RIGHT), probe.input,
                                      level, Nowhere, Nowhere))

\* the cap Player::movement clamps the horizontal speed to in the state
\* the last frame has found the player in
SpeedCap ==
    LET is_on_ground == collide(Before, level, Before.hitbox.x, Before.hitbox.y + 1)
        is_on_wall   == \/ collide(Before, level, Before.hitbox.x - 1, Before.hitbox.y)
                        \/ collide(Before, level, Before.hitbox.x + 1, Before.hitbox.y)
        super_jump   == Before.is_super_jumping /\ ~(is_on_ground \/ is_on_wall)
    IN  IF super_jump
        THEN IF Before.is_super_jumping_off_wall_slide
             THEN MAX_SUPERJUMP_SPEED_X_OFF_WALL_SLIDE
             ELSE MAX_SUPERJUMP_SPEED_X
        ELSE IF is_on_ground THEN MAX_RUN_SPEED ELSE MAX_AIR_SPEED

\* C24: in every frame that is not a dodge frame the horizontal speed the
\* player moves with does not exceed the cap of its state, and the caps
\* are ordered: the airborne cap is lower than the grounded cap, the
\* super-jump cap is higher than both, and the cap of a super jump off a
\* wall-slide is lower than the plain super-jump cap.
C24_SpeedCaps ==
    /\ (Framed /\ Before.dodge_timer = 0 /\ ~DodgeBegan) =>
           Abs(probe.p.hitbox.x - Before.hitbox.x) <= SpeedCap \div OG_FPS
    /\ MAX_AIR_SPEED < MAX_RUN_SPEED
    /\ MAX_SUPERJUMP_SPEED_X > MAX_RUN_SPEED
    /\ MAX_SUPERJUMP_SPEED_X > MAX_AIR_SPEED
    /\ MAX_SUPERJUMP_SPEED_X_OFF_WALL_SLIDE < MAX_SUPERJUMP_SPEED_X

\* the last frame has pressed jump during a slide
SlideJumped ==
    /\ Framed
    /\ Before.dodge_timer > 0
    /\ Before.is_sliding
    /\ input_pressed(INPUT_JUMP, probe.input, probe.prev_input)

\* the vertical velocity of the jump out of the slide of the last frame,
\* had it been pressed with remaining frames left
JumpVelocity(remaining) == SlideJump([Before EXCEPT !.dodge_timer = remaining]).velocity.y

\* C25: a jump press edge during a slide ends the dodge (dodge_timer = 0,
\* is_sliding false) and sets an upward velocity whose magnitude does not
\* grow with the remaining dodge_timer - the later in the slide, the
\* stronger the jump - and sets is_super_jumping exactly when the remaining
\* dodge_timer is more than half of dodge_timer_duration.
C25_SlideJump ==
    SlideJumped =>
        /\ probe.p.dodge_timer = 0
        /\ ~probe.p.is_sliding
        /\ probe.p.is_super_jumping <=> 2 * Before.dodge_timer > Before.dodge_timer_duration
        /\ \/ probe.p.velocity.y = JumpVelocity(Before.dodge_timer)
           \/ collide(probe.p, level, probe.p.hitbox.x, probe.p.hitbox.y - 1)
        /\ \A remaining \in 1..Before.dodge_timer_duration :
               /\ JumpVelocity(remaining) < 0
               /\ remaining > 1 => -JumpVelocity(remaining) <= -JumpVelocity(remaining - 1)

\* a jump out of the second half of a slide: no super jump, and a jump
\* stronger than JUMP_POWER
C25_LateSlideJump ==
    /\ SlideJumped
    /\ 2 * Before.dodge_timer < Before.dodge_timer_duration
    /\ ~probe.p.is_super_jumping
    /\ probe.p.velocity.y < -JUMP_POWER

\* the last frame has pressed jump during a wall-slide dodge
WallSlideJumped ==
    /\ Framed
    /\ Before.dodge_timer > 0
    /\ ~Before.is_sliding
    /\ Before.is_wall_sliding
    /\ input_pressed(INPUT_JUMP, probe.input, probe.prev_input)

\* C26: a jump press edge during a wall-slide dodge always gives the same
\* jump away from the wall: velocity.x = SUPER_WALL_JUMP_POWER_X on a left
\* wall and -SUPER_WALL_JUMP_POWER_X on a right wall, velocity.y =
\* -SUPER_WALL_JUMP_POWER_Y whatever the vertical velocity was before (a
\* tile in the way of the jump aside); the dodge ends and both super-jump
\* flags are set.
C26_SuperWallJump ==
    WallSlideJumped =>
        LET away == IF collide(Before, level, Before.hitbox.x - 1, Before.hitbox.y)
                    THEN 1 ELSE -1
        IN  /\ \/ probe.p.velocity.x = away * SUPER_WALL_JUMP_POWER_X
               \/ collide(probe.p, level, probe.p.hitbox.x + away, probe.p.hitbox.y)
            /\ \/ probe.p.velocity.y = -SUPER_WALL_JUMP_POWER_Y
               \/ collide(probe.p, level, probe.p.hitbox.x, probe.p.hitbox.y - 1)
            /\ probe.p.dodge_timer = 0
            /\ probe.p.is_super_jumping
            /\ probe.p.is_super_jumping_off_wall_slide

\* the move of SpecRespond has been made
Responded == probe.op = "move_by_velocity" /\ probe.done

\* the player the move of SpecRespond has left
Resolved == probe.result[1]

\* the X sweep, the Y sweep of that move has been blocked: it has ended
\* short of the displacement asked for
BlockedOnX == Resolved.hitbox.x - probe.p.hitbox.x # IDiv(probe.p.velocity.x, OG_FPS)
BlockedOnY == Resolved.hitbox.y - probe.p.hitbox.y # IDiv(probe.p.velocity.y, OG_FPS)

\* the flags Player::advance probes before the move
WasOnGround    == collide(probe.p, level, probe.p.hitbox.x, probe.p.hitbox.y + 1)
WasOnLeftWall  == collide(probe.p, level, probe.p.hitbox.x - 1, probe.p.hitbox.y)
WasOnRightWall == collide(probe.p, level, probe.p.hitbox.x + 1, probe.p.hitbox.y)

\* C27: when the X sweep is blocked the response uses the ground and wall
\* flags probed before the move: velocity.x becomes 0 if the player was on
\* the ground, is clamped to at least -WALL_STICKINESS if it was on a left
\* wall, to at most WALL_STICKINESS if it was on a right wall, and is left
\* as it is if it was on neither; when the Y sweep is blocked velocity.y
\* becomes 0; the Y sweep starts from the position the X sweep has ended at.
C27_CollisionResponse ==
    Responded =>
        /\ Resolved.velocity.x =
               IF ~BlockedOnX THEN probe.p.velocity.x
               ELSE IF WasOnGround THEN 0
               ELSE IF WasOnLeftWall THEN Max(probe.p.velocity.x, -WALL_STICKINESS)
               ELSE IF WasOnRightWall THEN Min(probe.p.velocity.x, WALL_STICKINESS)
               ELSE probe.p.velocity.x
        /\ Resolved.velocity.y = IF BlockedOnY THEN 0 ELSE probe.p.velocity.y
        /\ LET signy == IF probe.p.velocity.y > 0 THEN 1 ELSE -1
               BelowOrAbove(k) == collide(probe.p, level, Resolved.hitbox.x,
                                          probe.p.hitbox.y + k * signy)
           IN  StopsAt((Resolved.hitbox.y - probe.p.hitbox.y) * signy,
                       Abs(IDiv(probe.p.velocity.y, OG_FPS)), BelowOrAbove)

\* a player in the air, off the walls, that a wall has stopped: it is on the
\* wall after the move and keeps the velocity it had
C27_StoppedOffTheWall ==
    /\ Responded
    /\ BlockedOnX
    /\ ~WasOnGround /\ ~WasOnLeftWall /\ ~WasOnRightWall
    /\ collide(Resolved, level, Resolved.hitbox.x + 1, Resolved.hitbox.y)
    /\ Resolved.velocity.x = DODGE_SPEED

\* the advance has given player n a press edge of attack
AttackPressed(n) == input_pressed(INPUT_ATTACK, state'.prev_inputs[n], state.prev_inputs[n])

\* C28: the velocity and the retained initial_velocity of a boomerang are
\* set by a press edge of attack only while the boomerang is holstered; a
\* press edge while it is in flight leaves initial_velocity and the
\* flight in progress as they are.
C28_LaunchOnlyHolstered ==
    [][(Advanced /\ ~RoundReset) =>
          \A n \in 0..1 :
              ~state.players[n].is_dead =>
                  /\ state'.boomerangs[n].initial_velocity # state.boomerangs[n].initial_velocity
                         => state.boomerangs[n].is_holstered /\ AttackPressed(n)
                  /\ (AttackPressed(n) /\ ~state.boomerangs[n].is_holstered) =>
                         /\ state'.boomerangs[n].initial_velocity
                                = state.boomerangs[n].initial_velocity
                         /\ \/ state'.boomerangs[n].flight_time
                                   = state.boomerangs[n].flight_time + 1
                            \/ state'.boomerangs[n].is_holstered]_vars

\* C29: in every reachable state a boomerang whose is_holstered flag is
\* true has flight_time 0, a boomerang holstered because its owner died
\* included; and after every advance a holstered boomerang of a live
\* owner is centred on its owner's centre.
C29_Holstered ==
    /\ [](\A n \in 0..1 : state.boomerangs[n].is_holstered => state.boomerangs[n].flight_time = 0)
    /\ [][Advanced =>
             \A n \in 0..1 :
                 (state'.boomerangs[n].is_holstered /\ ~state'.players[n].is_dead) =>
                     /\ center_x(state'.boomerangs[n]) = center_x(state'.players[n])
                     /\ center_y(state'.boomerangs[n]) = center_y(state'.players[n])]_vars

\* the distances from its start at which a sweep of amount units with the
\* steps 1000, 100, 10 and 1 stops to test for a hit
SubSteps(amount) ==
    {1000 * i : i \in 1..(amount \div 1000)}
    \cup {(amount \div 1000) * 1000 + 100 * i : i \in 1..((amount % 1000) \div 100)}
    \cup {(amount \div 100) * 100 + 10 * i : i \in 1..((amount % 100) \div 10)}
    \cup {(amount \div 10) * 10 + i : i \in 1..(amount % 10)}

\* the hitboxes a boomerang at hitbox h passes through on a move by
\* (move_x, move_y): along x first, then along y
SubStepBoxes(h, move_x, move_y) ==
    {[h EXCEPT !.x = @ + (IF move_x > 0 THEN d ELSE -d)] : d \in SubSteps(Abs(move_x))}
    \cup {[h EXCEPT !.x = @ + move_x, !.y = @ + (IF move_y > 0 THEN d ELSE -d)] :
             d \in SubSteps(Abs(move_y))}

\* C30: collided_with_player is cleared at the start of each advance of a
\* boomerang and, after a move in flight, is true exactly when the hitbox
\* of the boomerang overlapped the hitbox of the opposing player at one
\* sub-step position at least of the move of that frame; nothing blocks
\* the boomerang: in a frame that does not holster it, it moves by exactly
\* (velocity.x / OG_FPS, velocity.y / OG_FPS) and flight_time goes up by
\* exactly 1.
C30_BoomerangHit ==
    [][(Advanced /\ ~RoundReset) =>
          \A n \in 0..1 :
              (~state.players[n].is_dead /\ ~state'.players[n].is_dead) =>
                  LET b     == state.boomerangs[n]
                      after == state'.boomerangs[n]
                      move_x == IDiv(after.velocity.x, OG_FPS)
                      move_y == IDiv(after.velocity.y, OG_FPS)
                  IN  IF after.is_holstered
                      THEN ~after.collided_with_player
                      ELSE /\ after.hitbox.x = b.hitbox.x + move_x
                           /\ after.hitbox.y = b.hitbox.y + move_y
                           /\ after.flight_time = b.flight_time + 1
                           /\ after.collided_with_player <=>
                                  \E h \in SubStepBoxes(b.hitbox, move_x, move_y) :
                                      do_hitboxes_overlap(h, state'.players[1 - n].hitbox)]_vars

\* a boomerang in flight that has hit the opposing player in this frame
C30_Hit ==
    \E n \in 0..1 :
        /\ ~state.boomerangs[n].is_holstered
        /\ state.boomerangs[n].collided_with_player
        /\ ~state.players[n].is_dead
        /\ state.players[1 - n].is_dead
        /\ state.round_end_frame = state.frame

\* the edges State::advance sees for a player in the step, and the edges
\* between the masks the player supplied for this frame and the one before
InputBits ==
    {INPUT_UP, INPUT_DOWN, INPUT_LEFT, INPUT_RIGHT, INPUT_JUMP, INPUT_ATTACK, INPUT_DODGE}

\* C31: a press edge of a bit is seen for a player in a frame exactly when
\* the bit is set in this frame's mask and was clear in the mask the same
\* player supplied for the frame before (a release edge: the reverse), so a
\* held button gives a press edge only on the first frame it is held, also
\* across a round reset.
C31_InputEdges ==
    [][(Advanced /\ state.frame >= 1) =>
          \A n \in 0..1 : \A bit \in InputBits :
              /\ input_pressed(bit, HeldInputs(state.frame + 1)[n], state.prev_inputs[n])
                     <=> /\ input_check(bit, HeldInputs(state.frame + 1)[n])
                         /\ ~input_check(bit, HeldInputs(state.frame)[n])
              /\ input_released(bit, HeldInputs(state.frame + 1)[n], state.prev_inputs[n])
                     <=> /\ ~input_check(bit, HeldInputs(state.frame + 1)[n])
                         /\ input_check(bit, HeldInputs(state.frame)[n])]_vars

\* the player was on the ground, touched a wall, when the last frame began
StartedOnGround == collide(Before, level, Before.hitbox.x, Before.hitbox.y + 1)

StartedOnWall ==
    \/ collide(Before, level, Before.hitbox.x - 1, Before.hitbox.y)
    \/ collide(Before, level, Before.hitbox.x + 1, Before.hitbox.y)

\* the last frame was a frame of movement in the air with a jump press edge
AirJumpPressed ==
    /\ Framed
    /\ Before.dodge_timer = 0 /\ ~DodgeBegan
    /\ ~StartedOnGround /\ ~StartedOnWall
    /\ input_pressed(INPUT_JUMP, probe.input, probe.prev_input)

\* the vertical velocity gravity alone makes of the one before the last
\* frame, in the air
AirFallen ==
    LET fast == /\ input_check(INPUT_DOWN, probe.input)
                /\ Before.velocity.y > -JUMP_CANCEL_POWER
                /\ ~Before.is_super_jumping
    IN  Min(Before.velocity.y + (IF fast THEN FASTFALL_GRAVITY ELSE GRAVITY) \div OG_FPS,
            IF fast THEN MAX_FASTFALL_SPEED ELSE MAX_FALL_SPEED)

\* the last frame has stopped the player on a tile above or below
StoppedVertically ==
    /\ probe.p.velocity.y = 0
    /\ \/ collide(probe.p, level, probe.p.hitbox.x, probe.p.hitbox.y - 1)
       \/ collide(probe.p, level, probe.p.hitbox.x, probe.p.hitbox.y + 1)

\* C32: a double jump is performed only on a jump press edge while the
\* player is airborne (neither on ground nor on a wall), not dodging and
\* can_double_jump is true, and it consumes the charge; the charge is
\* restored only by a non-dodge frame that starts on the ground, so between
\* any two double jumps there is such a grounded frame.
C32_DoubleJumpCharge ==
    Framed =>
        /\ (Before.can_double_jump /\ ~probe.p.can_double_jump) => AirJumpPressed
        /\ (AirJumpPressed /\ Before.can_double_jump) =>
               /\ ~probe.p.can_double_jump
               /\ \/ probe.p.velocity.y = -DOUBLE_JUMP_POWER_Y + GRAVITY \div OG_FPS
                  \/ StoppedVertically
        /\ (AirJumpPressed /\ ~Before.can_double_jump) =>
               /\ ~probe.p.can_double_jump
               /\ probe.p.velocity.y = AirFallen \/ StoppedVertically
        /\ (~Before.can_double_jump /\ probe.p.can_double_jump) =>
               /\ Before.dodge_timer = 0 /\ ~DodgeBegan
               /\ StartedOnGround

\* a double jump in the air
C32_DoubleJumped ==
    /\ AirJumpPressed /\ Before.can_double_jump
    /\ probe.p.velocity.y = -DOUBLE_JUMP_POWER_Y + GRAVITY \div OG_FPS

\* C33: whether or not the render/audio layer has drained the queues of
\* sound commands between two frames changes neither the gameplay fields
\* of the later state - all of the State but the queues - nor the checksum
\* a save records for it.
C33_SoundSideChannel ==
    [][Advanced =>
          \A inputs \in NextInputs({NoInput}) :
              \A drained \in {AdvanceAndReset(Silenced(state), inputs, level)} :
                  /\ Silenced(drained) = Silenced(state')
                  /\ SavedCell(drained, drained.frame).checksum
                         = SavedCell(state', state'.frame).checksum]_vars

\* C34: once a player is dead the other one cannot die before the round is
\* reset - the dead player's dodge_timer stays 0 and its boomerang stays
\* holstered - so round_end_frame is stamped in one frame of a round only,
\* two players are dead together only if they died in the same frame, and
\* the countdown to the reset is never started again.
C34_OneDeathPerRound ==
    [][Advanced =>
          \A n \in 0..1 :
              state.players[n].is_dead =>
                  /\ state.players[n].dodge_timer = 0
                  /\ state.boomerangs[n].is_holstered
                  /\ ~DiesInStep(1 - n)
                  /\ \/ RoundReset
                     \/ /\ state'.players[n].is_dead
                        /\ state'.round_end_frame = state.round_end_frame]_vars

\* the survivor, not dodging, has run into the dead player
C34_SurvivorMeetsDead ==
    \E n \in 0..1 :
        /\ state.players[n].is_dead
        /\ state.round_end_frame < state.frame
        /\ ~state.players[1 - n].is_dead
        /\ state.players[1 - n].collided_with_player
        /\ state.players[1 - n].dodge_timer = 0

\* C35: a live player whose movement in a frame was dodge movement
\* (dodge_timer > 0 at the start of that frame) is not killed in that
\* frame, neither by body contact nor by the opponent's boomerang.
C35_DodgeInvulnerable ==
    [][Advanced =>
          \A n \in 0..1 :
              (~state.players[n].is_dead /\ state.players[n].dodge_timer > 0)
                  => ~state'.players[n].is_dead]_vars

\* C36: after a round reset both players and both boomerangs have exactly
\* the field values of the initial state built by State::new (position, zero
\* velocity, facing direction, contact flags, dodge and jump flags, timers)
\* and prev_inputs is [0, 0]; frame, particles and curtain are as the
\* advance of the frame left them.
C36_ResetRestoresInitial ==
    [][RoundReset =>
          \A inputs \in NextInputs({NoInput}) :
              \A advanced \in {StateAdvance(state, inputs, level)} :
                  /\ state'.players = StateNew(level).players
                  /\ state'.boomerangs = StateNew(level).boomerangs
                  /\ state'.prev_inputs = StateNew(level).prev_inputs
                  /\ state'.frame = advanced.frame
                  /\ state'.particles = advanced.particles
                  /\ state'.curtain = advanced.curtain]_vars

\* C37: in every reachable state the boomerang of a dead player is
\* holstered, so at the combat resolution of no later frame a player meets
\* the condition to be killed by the boomerang of a dead opponent.
C37_DeadBoomerangHarmless ==
    /\ [](\A n \in 0..1 : state.players[n].is_dead => state.boomerangs[n].is_holstered)
    /\ [][Advanced =>
             \A n \in 0..1 :
                 state.players[1 - n].is_dead =>
                     \A c \in {AtCombat(state, state'.prev_inputs, level)} :
                         /\ c.boomerangs[1 - n].is_holstered
                         /\ ~(c.players[n].collided_with_boomerang
                                 /\ ~c.boomerangs[1 - n].is_holstered)]_vars

\* a player killed while its boomerang was in flight, and the survivor, not
\* dodging, in touch with that boomerang in a later frame
C37_SurvivorMeetsBoomerang ==
    \E n \in 0..1 :
        /\ state.players[n].is_dead
        /\ state.boomerangs[n].flight_time > 0
        /\ state.round_end_frame < state.frame
        /\ ~state.players[1 - n].is_dead
        /\ state.players[1 - n].collided_with_boomerang
        /\ state.players[1 - n].dodge_timer = 0

\* the ranges C38 gives for the timers and the dodge flags of a player
InRange(p) ==
    /\ 0 <= p.dodge_timer /\ p.dodge_timer <= p.dodge_timer_duration
    /\ p.dodge_timer_duration \in {DODGE_DURATION, SLIDE_DURATION}
    /\ 0 <= p.dodge_cooldown /\ p.dodge_cooldown <= DODGE_COOLDOWN
    /\ p.is_sliding => p.dodge_timer > 0 /\ p.dodge_timer_duration = SLIDE_DURATION
    /\ p.is_wall_sliding =>
           \/ collide(p, level, p.hitbox.x - 1, p.hitbox.y)
           \/ collide(p, level, p.hitbox.x + 1, p.hitbox.y)
    /\ p.is_super_jumping_off_wall_slide => p.is_super_jumping

\* C38: at every frame boundary 0 <= dodge_timer <= dodge_timer_duration,
\* dodge_timer_duration is DODGE_DURATION or SLIDE_DURATION,
\* 0 <= dodge_cooldown <= DODGE_COOLDOWN, is_sliding implies dodge_timer > 0
\* and dodge_timer_duration = SLIDE_DURATION, is_wall_sliding implies the
\* player touches a wall, and is_super_jumping_off_wall_slide implies
\* is_super_jumping.
C38_TimerAndFlagRanges == probe.op = "advance" => InRange(probe.p)

\* a slide down a wall that has run out: the wall-slide flag outlives the
\* dodge, on the wall
C38_WallSlideOutlivesDodge ==
    /\ Framed
    /\ probe.p.is_wall_sliding
    /\ probe.p.dodge_timer = 0
    /\ probe.p.dodge_cooldown > 0

\* the bounds C39 gives for the velocity of a player
VelocityInBounds(p) ==
    /\ -DODGE_SPEED <= p.velocity.x /\ p.velocity.x <= DODGE_SPEED
    /\ -DODGE_SPEED <= p.velocity.y /\ p.velocity.y <= MAX_FASTFALL_SPEED

\* C39: at every frame boundary and for every input sequence
\* |velocity.x| <= DODGE_SPEED and -DODGE_SPEED <= velocity.y <=
\* MAX_FASTFALL_SPEED, so the displacement of a frame handed to the sweep
\* is at most MAX_FASTFALL_SPEED / OG_FPS on an axis and the i32 velocity
\* fields stay far from their limits.
C39_VelocityBounds ==
    probe.op = "advance" =>
        /\ VelocityInBounds(probe.p)
        /\ MAX_FASTFALL_SPEED < I32Max /\ DODGE_SPEED <= MAX_FASTFALL_SPEED

\* a dodge straight up in flight: the vertical velocity at its bound
C39_BoundReached ==
    /\ Framed
    /\ Before.dodge_timer > 0
    /\ probe.p.velocity.y = -DODGE_SPEED
    /\ probe.p.hitbox.y < Before.hitbox.y

\* C40: after a dodge begins can_dodge stays false until a non-dodge frame
\* that starts with the player on the ground, so between two dodge starts
\* there is such a grounded frame; and at least DODGE_COOLDOWN frames
\* elapse between the end of one dodge and the start of the next.
C40_OneDodgePerAirborne ==
    Framed =>
        /\ DodgeBegan => ~probe.p.can_dodge
        /\ (~Before.can_dodge /\ probe.p.can_dodge) =>
               /\ Before.dodge_timer = 0 /\ ~DodgeBegan
               /\ StartedOnGround
        /\ (DodgeBegan /\ probe.dodge_end > 0) =>
               probe.frames - probe.dodge_end > DODGE_COOLDOWN

====
